---- MODULE Spec2Model ----
(***************************************************************************)
(* A model of the signal pipeline of the trade scanner:                    *)
(*   feature_calculator.py  get_consensus_signal, get_market_regime        *)
(*   signal_analyzer.py     analyze_btc_data, analyze_altcoin_data,        *)
(*                          combine_signals                                *)
(*   utils.py               check_liquidity                                *)
(*   cache.py               BTCCache                                       *)
(*                                                                         *)
(* Real numbers are kept exact as scaled integers; the unit of every       *)
(* quantity is given where it is introduced (z-scores in tenths, ratios    *)
(* in hundredths, combined scores in thousandths).                         *)
(***************************************************************************)
EXTENDS Integers, Sequences, FiniteSets, TLC

VARIABLES
    \* get_consensus_signal: the call's arguments and its return value
    cs_pc, values_dict, threshold, signal_type, cs_result,
    \* BTCCache: the object's fields (data, timestamp), the clock (now), and the
    \* call history: the return of the last get(), the argument and the time of
    \* the last set(), and the call made last
    data, timestamp, now, last_get, last_set, set_time, cache_pc,
    \* get_market_regime: the call's arguments and its return value
    rg_pc, rg_args, rg_result,
    \* one BTC analysis followed by one combination: the BTC context returned by
    \* analyze_btc_data, the altcoin signal handed to combine_signals, and the
    \* combined signal it returns
    cb_pc, btc_signal, cb_alt, combined,
    \* analyze_altcoin_data: what the call reads (the indicators of the main
    \* frame, the trend, the divergences, the BTC context's score, the BTC
    \* correlation data and the exchange's answers to check_liquidity) and the
    \* altcoin signal it returns, and the requests made to the exchange between
    \* the call and the return
    alt_pc, alt_args, alt_signal, alt_requests,
    \* one cycle of run_triad_scan_async: the stop flag (running), the position
    \* of the cycle and of its current loop (cy_pc, cy_i), what the cycle
    \* returned and why (cy_ret, cy_abort), the event loop's clock and the
    \* deadline of the cycle's wait_for over the altcoin tasks, whether the loop
    \* is in the middle of running its due timers, the BTC fetch results, the
    \* frames kept and the BTC context, the permits of the semaphore in use, and
    \* the locals of the cycle: all_results and the table written
    running, cy_pc, cy_i, cy_ret, cy_abort, clock, cy_deadline, in_timer_batch,
    btc_task_results, btc_dfs, btc_ctx, sem, all_results, table,
    \* the altcoin tasks (analyze_altcoin_task), one per altcoin of the list:
    \* position, the context received, the state of each candle fetch, the
    \* deadline of the task's wait_for, the frames kept, the order-book fetch,
    \* the return value, and whether the task returned at its stop check
    w_pc, w_ctx, w_fetch, w_deadline, w_dfs, w_ob, w_result, w_stopped,
    \* calculate_trend: the frames handed in (per timeframe: absent, or the
    \* number of candles and the order of the two EMAs on the last candle) and
    \* the pair returned (trend_direction, the timeframe of main_df)
    tr_pc, tr_dfs, tr_result,
    \* one call of an indicator function of feature_calculator: the function
    \* and what it reads of its arguments (ind_call), and its return value
    ind_pc, ind_call, ind_result,
    \* notifier.send_telegram_alert_enhanced: config.TELEGRAM_ENABLED, the
    \* combined signal handed in, and the messages posted to Telegram
    nt_pc, nt_enabled, nt_signal, nt_sent,
    \* the exchange clients of one cycle: how far the cycle is with the calls
    \* that create a client (cl_pc), the clients that are open, and the
    \* requests made through the client of run_triad_scan_async
    cl_pc, cl_open, cl_uses,
    \* one call of data_collector.fetch_ohlcv_async: its position, the loop
    \* variable, the client its local exchange_async refers to, whether it
    \* holds a permit of the semaphore and how many permits other fetches
    \* hold, how each request it made ended, the seconds it slept between
    \* attempts, and how it ended
    ft_pc, attempt, exchange_async, ft_holds, ft_others, ft_log, ft_waited, ft_ret,
    \* one call of analyze_btc_data with its cache: the fields of the cache
    \* object, the clock, what the analysis of the frames handed in yields,
    \* the fields of the cache when the call was made, and the return value
    bc_pc, bc_cache, bc_now, bc_dfs, bc_entry, bc_ret,
    \* the main loop: its position, the stop flag, the cycles entered, the
    \* iterations left of the wait between cycles, the cache object of the
    \* cycle and the time since the cycle created it, the set() calls on it
    \* in the cycle, whether the altcoin workers of the cycle were created,
    \* and the history: calls of analyze_btc_data that returned from the
    \* cache, and set() calls made after the workers were created
    ml_pc, ml_running, ml_cycles, ml_left, ml_cache, ml_now, ml_writes, ml_workers,
    ml_hits, ml_late_writes,
    \* two calls of analyze_altcoin_data on the same frames, context and
    \* exchange: the order books the worker passed to the first and to the
    \* second call, and the signal the second call returned (the first one's
    \* is alt_signal)
    alt_books, alt_signal2

csVars    == <<cs_pc, values_dict, threshold, signal_type, cs_result>>
cacheVars == <<data, timestamp, now, last_get, last_set, set_time, cache_pc>>
rgVars    == <<rg_pc, rg_args, rg_result>>
cbVars    == <<cb_pc, btc_signal, cb_alt, combined>>
altVars   == <<alt_pc, alt_args, alt_signal, alt_requests>>
cyVars    == <<running, cy_pc, cy_i, cy_ret, cy_abort, clock, cy_deadline, in_timer_batch,
               btc_task_results, btc_dfs, btc_ctx, sem, all_results, table>>
wVars     == <<w_pc, w_ctx, w_fetch, w_deadline, w_dfs, w_ob, w_result, w_stopped>>
trVars    == <<tr_pc, tr_dfs, tr_result>>
coreVars  == <<csVars, cacheVars, rgVars, cbVars, altVars, cyVars, wVars>>
indVars   == <<ind_pc, ind_call, ind_result>>
ntVars    == <<nt_pc, nt_enabled, nt_signal, nt_sent>>
clVars    == <<cl_pc, cl_open, cl_uses>>
ftVars    == <<ft_pc, attempt, exchange_async, ft_holds, ft_others, ft_log, ft_waited, ft_ret>>
bcVars    == <<bc_pc, bc_cache, bc_now, bc_dfs, bc_entry, bc_ret>>
mlVars    == <<ml_pc, ml_running, ml_cycles, ml_left, ml_cache, ml_now, ml_writes,
               ml_workers, ml_hits, ml_late_writes>>
niVars    == <<alt_books, alt_signal2>>
ioVars    == <<clVars, ftVars, bcVars, mlVars, niVars>>
fnVars    == <<trVars, indVars, ntVars, ioVars>>
vars      == <<coreVars, fnVars>>

Abs(x) == IF x < 0 THEN -x ELSE x

(***************************************************************************)
(* feature_calculator.get_consensus_signal                                 *)
(***************************************************************************)
\* The timeframes a mapping may be keyed by (config.ALT_TIMEFRAMES has three).
MaxTimeframes == 3
Timeframes == 1..MaxTimeframes
MaxThreshold == 3

\* One vote of a timeframe, by the encoding (the loop body of lines 246-257).
consensus_vote(val, stype) ==
    IF stype = "binary"
    THEN (IF val > 0 THEN "buy" ELSE IF val < 0 THEN "sell" ELSE "hold")
    ELSE IF stype = "ternary"
    THEN (IF val = "buy" \/ val = "oversold" THEN "buy"
          ELSE IF val = "sell" \/ val = "overbought" THEN "sell"
          ELSE "hold")
    ELSE val

consensus_count(vd, stype, label) ==
    IF stype \in {"binary", "ternary", "level"}
    THEN Cardinality({tf \in DOMAIN vd : consensus_vote(vd[tf], stype) = label})
    ELSE 0

get_consensus_signal_sell_first(vd, thr, stype) ==
    IF DOMAIN vd = {} THEN <<"HOLD", 0>>
    ELSE LET buy_count  == consensus_count(vd, stype, "buy")
             sell_count == consensus_count(vd, stype, "sell")
         IN  IF sell_count >= thr THEN <<"SELL", sell_count>>
             ELSE IF buy_count >= thr THEN <<"BUY", buy_count>>
             ELSE <<"HOLD", 0>>

get_consensus_signal(vd, thr, stype) ==
    IF DOMAIN vd = {} THEN <<"HOLD", 0>>
    ELSE LET buy_count  == consensus_count(vd, stype, "buy")
             sell_count == consensus_count(vd, stype, "sell")
         IN  IF buy_count >= thr THEN <<"BUY", buy_count>>
             ELSE IF sell_count >= thr THEN <<"SELL", sell_count>>
             ELSE <<"HOLD", 0>>

\* The values a mapping can hold under each encoding.
VoteValues(stype) ==
    IF stype = "binary" THEN {-1, 0, 1}
    ELSE IF stype = "ternary" THEN {"buy", "sell", "hold", "oversold", "overbought", "n/a"}
    ELSE {"buy", "sell", "hold", "BUY"}

NoResult == <<"none", -1>>

CsIdle ==
    /\ cs_pc = "idle" /\ values_dict = <<>> /\ threshold = 1
    /\ signal_type = "binary" /\ cs_result = NoResult

InitConsensusArgs ==
    /\ cs_pc = "called"
    /\ signal_type \in {"binary", "ternary", "level"}
    /\ \E keys \in SUBSET Timeframes : values_dict \in [keys -> VoteValues(signal_type)]
    /\ threshold \in 1..MaxThreshold
    /\ cs_result = NoResult

CallGetConsensusSignal ==
    /\ cs_pc = "called"
    /\ cs_result' = get_consensus_signal(values_dict, threshold, signal_type)
    /\ cs_pc' = "returned"
    /\ UNCHANGED <<values_dict, threshold, signal_type>>

(***************************************************************************)
(* cache.BTCCache                                                          *)
(***************************************************************************)
\* Python's None in the integer-valued fields of the cache.
None == -1
\* The TTL of the cache and the horizon of the clock, in clock ticks.
TtlTicks == 2
MaxTime == 6
\* The snapshots handed to set().
MaxSnapshot == 3
Snapshots == 1..MaxSnapshot

CacheInit ==
    /\ data = None /\ timestamp = None /\ now = 0
    /\ last_get = None /\ last_set = None /\ set_time = None /\ cache_pc = "new"

\* Whether the slot holds nothing (line 11).
cache_empty == data = None \/ timestamp = None
\* Whether the TTL has run out (line 13).
cache_expired == now - timestamp > TtlTicks

BTCCache_get_late ==
    /\ IF cache_empty
       THEN /\ last_get' = None
            /\ UNCHANGED <<data, timestamp>>
       ELSE IF now - timestamp > TtlTicks + 1
       THEN /\ data' = None /\ timestamp' = None /\ last_get' = None
       ELSE /\ last_get' = data
            /\ UNCHANGED <<data, timestamp>>
    /\ cache_pc' = "get"
    /\ UNCHANGED <<now, last_set, set_time>>

BTCCache_get ==
    /\ IF cache_empty
       THEN /\ last_get' = None
            /\ UNCHANGED <<data, timestamp>>
       ELSE IF cache_expired
       THEN /\ data' = None /\ timestamp' = None /\ last_get' = None
       ELSE /\ last_get' = data
            /\ UNCHANGED <<data, timestamp>>
    /\ cache_pc' = "get"
    /\ UNCHANGED <<now, last_set, set_time>>

BTCCache_set(d) ==
    /\ data' = d
    /\ timestamp' = now
    /\ last_set' = d
    /\ set_time' = now
    /\ cache_pc' = "set"
    /\ UNCHANGED <<now, last_get>>

\* datetime.now() advances between calls.
Tick ==
    /\ now < MaxTime
    /\ now' = now + 1
    /\ cache_pc' = "tick"
    /\ UNCHANGED <<data, timestamp, last_get, last_set, set_time>>

CacheSet == \E d \in Snapshots : BTCCache_set(d)

(***************************************************************************)
(* feature_calculator.get_market_regime                                    *)
(* Z-scores and ATR% are in tenths, RSI in whole points.                   *)
(***************************************************************************)
Trends == {"up", "down", "neutral"}

\* The volatility bucket (lines 179-184).
regime_volatility(atr_pct) ==
    IF atr_pct < 15 THEN "low" ELSE IF atr_pct < 30 THEN "medium" ELSE "high"

get_market_regime_accumulation_first(z_4h, rsi_4h, atr_pct, volume_z_4h, trend_direction) ==
    <<IF Abs(z_4h) < 10 /\ 40 < rsi_4h /\ rsi_4h < 60 THEN "range"
      ELSE IF z_4h < -10 /\ volume_z_4h > 10 THEN "accumulation"
      ELSE IF z_4h > 10 /\ volume_z_4h < -10 THEN "distribution"
      ELSE IF z_4h < -20 /\ rsi_4h < 30 /\ trend_direction = "up" THEN "oversold"
      ELSE IF z_4h > 20 /\ rsi_4h > 70 /\ trend_direction = "down" THEN "overbought"
      ELSE "trending",
      regime_volatility(atr_pct)>>

get_market_regime(z_4h, rsi_4h, atr_pct, volume_z_4h, trend_direction) ==
    <<IF Abs(z_4h) < 10 /\ 40 < rsi_4h /\ rsi_4h < 60 THEN "range"
      ELSE IF z_4h < -20 /\ rsi_4h < 30 /\ trend_direction = "up" THEN "oversold"
      ELSE IF z_4h > 20 /\ rsi_4h > 70 /\ trend_direction = "down" THEN "overbought"
      ELSE IF z_4h < -10 /\ volume_z_4h > 10 THEN "accumulation"
      ELSE IF z_4h > 10 /\ volume_z_4h < -10 THEN "distribution"
      ELSE "trending",
      regime_volatility(atr_pct)>>

\* Argument values on both sides of every threshold of the classifier.
RegimeZ   == {-25, -20, -15, -10, -5, 0, 5, 10, 15, 20, 25}
RegimeRsi == {25, 30, 40, 50, 60, 70, 75}
RegimeAtr == {0, 14, 15, 29, 30, 60}
RegimeVolZ == {-15, -10, 0, 10, 15}

RgIdle ==
    /\ rg_pc = "idle"
    /\ rg_args = [z |-> 0, rsi |-> 50, atr |-> 0, volz |-> 0, trend |-> "neutral"]
    /\ rg_result = <<"none", "none">>

InitRegimeArgs ==
    /\ rg_pc = "called"
    /\ rg_args \in [z : RegimeZ, rsi : RegimeRsi, atr : RegimeAtr,
                    volz : RegimeVolZ, trend : Trends]
    /\ rg_result = <<"none", "none">>

CallGetMarketRegime ==
    /\ rg_pc = "called"
    /\ rg_result' = get_market_regime(rg_args.z, rg_args.rsi, rg_args.atr,
                                      rg_args.volz, rg_args.trend)
    /\ rg_pc' = "returned"
    /\ UNCHANGED rg_args

(***************************************************************************)
(* feature_calculator.calculate_indicators_for_timeframe                   *)
(* The indicator values of a frame are inputs: Z-scores and ATR% in        *)
(* tenths, RSI in points, the MACD histogram in units of 0.0001,           *)
(* Stochastic RSI k and d in hundredths (calculate_stoch_rsi returns       *)
(* values between 0.0 and 1.0).                                            *)
(***************************************************************************)
calculate_indicators_for_timeframe(raw) ==
    [z |-> raw.z, rsi |-> raw.rsi, macd_hist |-> raw.macd_hist,
     stoch_k |-> raw.stoch_k, vol_z |-> raw.vol_z, atr_pct |-> raw.atr_pct,
     rsi_signal   |-> IF raw.rsi < 30 THEN "buy" ELSE IF raw.rsi > 70 THEN "sell" ELSE "hold",
     macd_signal  |-> IF raw.macd_hist > 0 THEN "buy"
                      ELSE IF raw.macd_hist < 0 THEN "sell" ELSE "hold",
     stoch_signal |-> IF raw.stoch_k < 2000 /\ raw.stoch_k > raw.stoch_d THEN "buy"
                      ELSE IF raw.stoch_k > 8000 /\ raw.stoch_k < raw.stoch_d THEN "sell"
                      ELSE "hold"]

(***************************************************************************)
(* signal_analyzer.analyze_btc_data                                        *)
(***************************************************************************)
TfNames == {"15m", "1h", "4h"}

\* The frame the signal is formed from: 4h, else the last of btc_results, which
\* are in the order of config.BTC_TIMEFRAMES (lines 81-88).
main_tf(present) ==
    IF "4h" \in present THEN "4h" ELSE IF "1h" \in present THEN "1h" ELSE "15m"

\* A consensus entry as analyze_btc_data stores it: the label alone, the count
\* being unpacked into a local (lines 52-62). is_tuple records the Python type
\* of the stored value.
consensus_entry(result) == [is_tuple |-> FALSE, label |-> result[1]]

btc_consensus(frames) ==
    LET tfs == DOMAIN frames
        z_vals    == [tf \in tfs |-> IF frames[tf].z < -15 THEN 1
                                     ELSE IF frames[tf].z > 15 THEN -1 ELSE 0]
        rsi_vals  == [tf \in tfs |-> frames[tf].rsi_signal]
        macd_vals == [tf \in tfs |-> IF frames[tf].macd_hist > 0 THEN 1
                                     ELSE IF frames[tf].macd_hist < 0 THEN -1 ELSE 0]
        stoch_vals == [tf \in tfs |-> frames[tf].stoch_signal]
        vol_vals  == [tf \in tfs |-> IF frames[tf].vol_z > 5 THEN 1
                                     ELSE IF frames[tf].vol_z < -5 THEN -1 ELSE 0]
    IN  [z      |-> consensus_entry(get_consensus_signal(z_vals, 2, "binary")),
         rsi    |-> consensus_entry(get_consensus_signal(rsi_vals, 2, "ternary")),
         macd   |-> consensus_entry(get_consensus_signal(macd_vals, 2, "binary")),
         stoch  |-> consensus_entry(get_consensus_signal(stoch_vals, 2, "ternary")),
         volume |-> consensus_entry(get_consensus_signal(vol_vals, 2, "binary"))]

\* The qualitative confidence of the BTC context (lines 105-106).
btc_confidence(z_4h, rsi_4h, macd_hist) ==
    LET confidence_score == Abs(z_4h) + (IF Abs(rsi_4h - 50) > 20 THEN 10 ELSE 0)
                                      + (IF Abs(macd_hist) > 10 THEN 5 ELSE 0)
    IN  IF confidence_score > 30 THEN "high"
        ELSE IF confidence_score > 15 THEN "medium" ELSE "low"

\* The BTC score (lines 109-144). A divergence is "none", "Bullish" or "Bearish".
btc_score_of(m, stoch_signal_4h, trend, rsi_div, macd_div) ==
      (IF m.z < -20 THEN 2 ELSE IF m.z > 20 THEN -2 ELSE 0)
    + (IF m.rsi < 30 THEN 2 ELSE IF m.rsi > 70 THEN -2 ELSE 0)
    + (IF m.macd_hist > 0 THEN 1 ELSE IF m.macd_hist < 0 THEN -1 ELSE 0)
    + (IF stoch_signal_4h = "buy" THEN 1 ELSE IF stoch_signal_4h = "sell" THEN -1 ELSE 0)
    + (IF m.vol_z > 10 THEN 1 ELSE IF m.vol_z < -10 THEN -1 ELSE 0)
    + (IF trend = "up" THEN 2 ELSE IF trend = "down" THEN -2 ELSE 0)
    + (IF rsi_div = "Bullish" THEN 2 ELSE IF rsi_div = "Bearish" THEN -2 ELSE 0)
    + (IF macd_div = "Bullish" THEN 2 ELSE IF macd_div = "Bearish" THEN -2 ELSE 0)

\* The context returned for frames that all produced indicators (the caller
\* passes only frames of 10 candles or more, main.py lines 108-111). Of
\* result_data the fields that combine_signals and analyze_altcoin_data read
\* are kept; close_len is the length of close_series.
analyze_btc_data(raws, trend, rsi_div, macd_div, close_len) ==
    LET frames == [tf \in DOMAIN raws |-> calculate_indicators_for_timeframe(raws[tf])]
        m == frames[main_tf(DOMAIN raws)]
        stoch_signal_4h == IF "4h" \in DOMAIN frames THEN frames["4h"].stoch_signal
                           ELSE "None"
    IN  [regime |-> get_market_regime(m.z, m.rsi, m.atr_pct, m.vol_z, trend)[1],
         trend |-> trend,
         confidence |-> btc_confidence(m.z, m.rsi, m.macd_hist),
         score |-> btc_score_of(m, stoch_signal_4h, trend, rsi_div, macd_div),
         consensus |-> btc_consensus(frames),
         close_len |-> close_len]

\* Indicator values of the main frame, on both sides of the thresholds.
RawFrame(z, rsi, macd, st, volz) ==
    [z |-> z, rsi |-> rsi, macd_hist |-> macd, stoch_k |-> st[1], stoch_d |-> st[2],
     vol_z |-> volz, atr_pct |-> 20]
StochPairs == {<<30, 50>>}
BtcMainFrames ==
    {RawFrame(z, rsi, macd, st, volz) :
        z \in {-25, 0, 25}, rsi \in {25, 50, 75}, macd \in {-20, 5},
        st \in StochPairs, volz \in {0, 15}}
\* The other frames: a bullish, a bearish and a flat one.
BtcOtherFrames ==
    {RawFrame(-25, 25, 20, <<60, 40>>, 15), RawFrame(25, 75, -20, <<30, 50>>, -15),
     RawFrame(0, 50, 0, <<50, 50>>, 0)}
BtcPresent == {{"15m", "1h", "4h"}, {"15m", "1h"}}
Divergences == {<<"none", "none">>, <<"Bullish", "none">>, <<"none", "Bearish">>}
\* Lengths of a close series: shorter and longer than the correlation window.
CloseLens == {20, 250}

NoSignal == [absent |-> TRUE]

AnalyzeBtcData ==
    /\ cb_pc = "start"
    /\ \E present \in BtcPresent, mf \in BtcMainFrames, o \in BtcOtherFrames,
          trend \in Trends, div \in Divergences, cl \in CloseLens :
          btc_signal' = analyze_btc_data(
              [tf \in present |-> IF tf = main_tf(present) THEN mf ELSE o],
              trend, div[1], div[2], cl)
    /\ cb_pc' = "btc"
    /\ UNCHANGED <<cb_alt, combined>>

(***************************************************************************)
(* signal_analyzer.combine_signals                                         *)
(* Weights and the correlation are in hundredths, the reward/risk ratio in *)
(* hundredths, the combined score in thousandths.                          *)
(***************************************************************************)
\* feature_calculator.calculate_correlation: 0 when a series is shorter than
\* the window, else Pearson's coefficient of the last `window` points (an input).
calculate_correlation_unguarded(len1, len2, pearson, window) == pearson

calculate_correlation(len1, len2, pearson, window) ==
    IF len1 < window \/ len2 < window THEN 0 ELSE pearson

\* The tally of the consensus entries (lines 494-509): an entry counts only
\* when it is a tuple. The result is <<consensus_strength, indicators counted>>.
consensus_tally(consensus) ==
    LET counted == {k \in DOMAIN consensus : consensus[k].is_tuple}
    IN  <<Cardinality({k \in counted : consensus[k].label = "BUY"})
            - Cardinality({k \in counted : consensus[k].label = "SELL"}),
          Cardinality(counted)>>

\* The bucket of 0.7 x base + 0.3 x (s + 1) / 2 for a tally <<strength, count>>,
\* s = strength / count (0 when count = 0): compared as
\* 10000 x count x score against 7500 x count and 4000 x count (lines 512-532).
bucket_confidence(base, tally) ==
    LET c == IF tally[2] > 0 THEN tally[2] ELSE 1
        st == IF tally[2] > 0 THEN tally[1] ELSE 0
        b == IF base = "high" THEN 100 ELSE IF base = "medium" THEN 50 ELSE 25
        num == 70 * b * c + 1500 * (c + st)
    IN  IF num > 7500 * c THEN "high" ELSE IF num > 4000 * c THEN "medium" ELSE "low"

final_btc_confidence_of(btc) ==
    bucket_confidence(btc.confidence, consensus_tally(btc.consensus))

\* Lines 486-491.
base_weight_of(btc) ==
    IF btc.regime = "range" \/ btc.trend = "neutral" THEN 50 ELSE 70

\* Lines 535-536: the BTC weight before the divergence override.
rule_btc_weight(btc) ==
    IF final_btc_confidence_of(btc) = "low" THEN base_weight_of(btc) \div 2
    ELSE base_weight_of(btc)

\* Lines 553-563: the score before the reward/risk gate.
pre_gate_score(btc_score, alt_score, btc_weight, alt_weight, is_divergent, conf) ==
    IF is_divergent /\ alt_score > 4 /\ (Abs(btc_score) <= 4 \/ conf # "high")
    THEN alt_score * 1300
    ELSE btc_score * btc_weight * 10 + alt_score * alt_weight * 10

rr_gate_longs_only(final_score, alt_rr) ==
    IF alt_rr < 50 THEN (IF final_score > 0 THEN 0 ELSE final_score)
    ELSE IF alt_rr > 150 THEN (final_score * 11) \div 10
    ELSE final_score

\* Lines 571-576.
rr_gate(final_score, alt_rr) ==
    IF alt_rr < 50 THEN 0
    ELSE IF alt_rr > 150 THEN (final_score * 11) \div 10
    ELSE final_score

final_label_weak_low(pre_score, final_score, alt_rr) ==
    IF pre_score > 5000 /\ alt_rr >= 80
    THEN <<IF alt_rr >= 120 THEN "STRONG_LONG" ELSE "WEAK_LONG",
           IF final_score > 7000 THEN "high" ELSE "medium">>
    ELSE IF pre_score < -5000 /\ alt_rr >= 80
    THEN <<IF alt_rr >= 120 THEN "STRONG_SHORT" ELSE "WEAK_SHORT",
           IF final_score < -7000 THEN "high" ELSE "medium">>
    ELSE IF Abs(final_score) > 3000 /\ alt_rr >= 100
    THEN <<IF final_score > 0 THEN "WEAK_LONG" ELSE "WEAK_SHORT", "low">>
    ELSE <<"HOLD", "low">>

\* Lines 567-568 and 579-604: <<signal, confidence>>. The thresholds 5 and -5
\* are tested on the score before the gate, |score| > 3 and the confidence on
\* the score after it.
final_label(pre_score, final_score, alt_rr) ==
    IF pre_score > 5000 /\ alt_rr >= 80
    THEN <<IF alt_rr >= 120 THEN "STRONG_LONG" ELSE "WEAK_LONG",
           IF final_score > 7000 THEN "high" ELSE "medium">>
    ELSE IF pre_score < -5000 /\ alt_rr >= 80
    THEN <<IF alt_rr >= 120 THEN "STRONG_SHORT" ELSE "WEAK_SHORT",
           IF final_score < -7000 THEN "high" ELSE "medium">>
    ELSE IF Abs(final_score) > 3000 /\ alt_rr >= 100
    THEN <<IF final_score > 0 THEN "WEAK_LONG" ELSE "WEAK_SHORT", "medium">>
    ELSE <<"HOLD", "low">>

combine_signals(btc, alt, pearson) ==
    LET conf == final_btc_confidence_of(btc)
        w == rule_btc_weight(btc)
        corr == calculate_correlation(alt.close_len, btc.close_len, pearson, 30)
        is_divergent == Abs(corr) < 50
        btc_weight == IF is_divergent THEN 30 ELSE w
        alt_weight == IF is_divergent THEN 70 ELSE 100 - w
        pre == pre_gate_score(btc.score, alt.score, btc_weight, alt_weight,
                              is_divergent, conf)
        final_score == rr_gate(pre, alt.rr)
        lab == final_label(pre, final_score, alt.rr)
    IN  [absent |-> FALSE,
         final_signal |-> lab[1], confidence |-> lab[2], score |-> final_score,
         correlation |-> corr, is_divergent |-> is_divergent,
         btc_weight |-> btc_weight, alt_weight |-> alt_weight,
         btc_confidence_used |-> conf,
         \* final_score as it stood before the gate (line 559 or 562)
         pre_gate |-> pre]

\* The altcoin signals handed to the combiner: the integer score, the rounded
\* reward/risk ratio and the length of the close series.
AltScores == {-8, -5, 0, 4, 5, 8}
AltRRs == {30, 50, 79, 80, 100, 120, 150, 160}
Pearsons == {-50, 49}

CbInit ==
    /\ cb_pc = "start" /\ btc_signal = NoSignal /\ cb_alt = NoSignal
    /\ combined = NoSignal

CombineSignals ==
    /\ cb_pc = "btc"
    /\ \E sc \in AltScores, rr \in AltRRs, cl \in CloseLens, pearson \in Pearsons :
          LET alt == [absent |-> FALSE, score |-> sc, rr |-> rr, close_len |-> cl]
          IN  /\ cb_alt' = alt
              /\ combined' = combine_signals(btc_signal, alt, pearson)
    /\ cb_pc' = "combined"
    /\ UNCHANGED btc_signal

(***************************************************************************)
(* utils.check_liquidity                                                   *)
(* The exchange's answers are inputs: whether the ticker has a bid and an  *)
(* ask, the spread and the price impact in hundredths of a percent, the    *)
(* 24h volume, whether an order book with bids and asks came back, and     *)
(* what analyze_orderbook_density found in it.                             *)
(* The result is <<is_liquid, orderbook_analysis>>.                        *)
(***************************************************************************)
NoOrderbookAnalysis == [present |-> FALSE]

check_liquidity(ex) ==
    IF ~ex.ticker_ok THEN <<FALSE, NoOrderbookAnalysis>>
    ELSE LET orderbook_analysis ==
                 IF ex.ob_ok
                 THEN [present |-> TRUE, density_score |-> ex.density_score,
                       bid_near |-> ex.bid_near, ask_near |-> ex.ask_near,
                       price_impact |-> ex.price_impact, spread_pct |-> ex.spread]
                 ELSE NoOrderbookAnalysis
             is_liquid ==
                 ~(\/ ex.spread > 200
                   \/ ex.volume_24h < 10
                   \/ (orderbook_analysis.present /\ orderbook_analysis.price_impact > 100))
         IN  <<is_liquid, orderbook_analysis>>

\* The requests check_liquidity makes on the exchange object it is given:
\* fetch_ticker (line 24) and, when the ticker has a bid and an ask,
\* fetch_order_book (line 39).
check_liquidity_requests(ex) ==
    IF ~ex.ticker_ok THEN <<"fetch_ticker">> ELSE <<"fetch_ticker", "fetch_order_book">>

(***************************************************************************)
(* signal_analyzer.analyze_altcoin_data                                    *)
(***************************************************************************)
\* Rounding of a non-negative ratio n / d to the nearest integer.
Round(n, d) == (2 * n + d) \div (2 * d)

\* One term of the score: <<points, reason>>, reason "" when the rule did not
\* trigger. The terms are listed in the order of the code (lines 277-371).
score_terms(a, ob) ==
    LET div_weight == IF Abs(a.btc_score) <= 2 THEN 4 ELSE 3
    IN  << IF a.z < -20 THEN <<2, "Z oversold">>
           ELSE IF a.z > 20 THEN <<-2, "Z overbought">> ELSE <<0, "">>,
           IF a.rsi < 30 THEN <<2, "RSI oversold">>
           ELSE IF a.rsi > 70 THEN <<-2, "RSI overbought">> ELSE <<0, "">>,
           IF a.macd_hist > 0 THEN <<1, "MACD positive">>
           ELSE IF a.macd_hist < 0 THEN <<-1, "MACD negative">> ELSE <<0, "">>,
           IF a.stoch_k < 2000 THEN <<1, "StochRSI oversold">>
           ELSE IF a.stoch_k > 8000 THEN <<-1, "StochRSI overbought">> ELSE <<0, "">>,
           IF a.vol_z > 10 THEN <<1, "High volume">>
           ELSE IF a.vol_z < -10 THEN <<-1, "Low volume">> ELSE <<0, "">>,
           IF a.trend = "up" THEN <<2, "Uptrend">>
           ELSE IF a.trend = "down" THEN <<-2, "Downtrend">> ELSE <<0, "">>,
           IF a.rsi_div = "Bullish" THEN <<div_weight, "Bullish RSI divergence">>
           ELSE IF a.rsi_div = "Bearish" THEN <<-div_weight, "Bearish RSI divergence">>
           ELSE <<0, "">>,
           IF a.macd_div = "Bullish" THEN <<div_weight, "Bullish MACD divergence">>
           ELSE IF a.macd_div = "Bearish" THEN <<-div_weight, "Bearish MACD divergence">>
           ELSE <<0, "">>,
           IF a.btc_corr.present /\ a.btc_corr.correlation > 80
           THEN <<1, "High BTC correlation">>
           ELSE IF a.btc_corr.present /\ a.btc_corr.correlation < -50
           THEN <<-1, "Negative BTC correlation">> ELSE <<0, "">>,
           IF a.btc_corr.present /\ a.btc_corr.divergence
           THEN <<2, "BTC divergence">> ELSE <<0, "">>,
           IF ob.present /\ ob.density_score > 0
           THEN (IF ob.bid_near THEN <<2, "Support">>
                 ELSE IF ob.ask_near THEN <<-2, "Resistance">>
                 ELSE IF ob.density_score > 100 THEN <<1, "Dense order book">>
                 ELSE <<0, "">>)
           ELSE <<0, "">> >>

RECURSIVE sum_points(_)
sum_points(terms) ==
    IF terms = <<>> THEN 0 ELSE terms[1][1] + sum_points(Tail(terms))

\* The reasons list: the descriptions of the triggered rules, in order.
reasons_of(terms) == SelectSeq([i \in 1..Len(terms) |-> terms[i][2]], LAMBDA r : r # "")

\* reasons[-n:]
last_reasons(reasons, n) ==
    IF Len(reasons) <= n THEN reasons
    ELSE SubSeq(reasons, Len(reasons) - n + 1, Len(reasons))

\* The reason text of a signal: the last n descriptions.
reason_text(reasons, n) == last_reasons(reasons, n)

\* One tier down (lines 383-386 and 392-395).
downgrade(confidence) ==
    IF confidence = "high" THEN "medium"
    ELSE IF confidence = "medium" THEN "low" ELSE confidence

\* Lines 374-395.
final_confidence_of(score, is_liquid, ob) ==
    LET base_confidence == IF score >= 6 \/ score <= -6 THEN "high"
                           ELSE IF score >= 4 \/ score <= -4 THEN "medium" ELSE "low"
        after_liquidity == IF ~is_liquid THEN downgrade(base_confidence)
                           ELSE base_confidence
    IN  IF ob.present /\ (ob.price_impact > 100 \/ ob.spread_pct > 50)
        THEN downgrade(after_liquidity) ELSE after_liquidity

\* Lines 270-272 and 406-409, 453: the reward/risk ratio in hundredths, rounded
\* to two decimals; |z x atr| / (1.5 x atr) is 20 |z| / 3 hundredths.
adjusted_rr_of(z, atr_pct, is_liquid, ob) ==
    LET stressed == ~is_liquid
                    \/ (ob.present /\ (ob.price_impact > 100 \/ ob.spread_pct > 50))
    IN  IF atr_pct > 0
        THEN (IF stressed THEN Round(16 * Abs(z), 3) ELSE Round(20 * Abs(z), 3))
        ELSE 0

\* Lines 397-443: <<signal, distance divisor>>; targets and stops are kept as
\* 20000 x price x (1 +/- pct / 100), pct being mean_reversion_pct = |z| x atr
\* (z and atr in tenths) or risk_pct = 1.5 x atr.
signal_of_halved_strong(score) ==
    IF score >= 6 THEN <<"STRONG LONG", 2>>
    ELSE IF score <= -6 THEN <<"STRONG SHORT", 2>>
    ELSE IF score >= 4 THEN <<"WEAK LONG", 2>>
    ELSE IF score <= -4 THEN <<"WEAK SHORT", 2>>
    ELSE <<"HOLD", 0>>

signal_of(score) ==
    IF score >= 6 THEN <<"STRONG LONG", 1>>
    ELSE IF score <= -6 THEN <<"STRONG SHORT", 1>>
    ELSE IF score >= 4 THEN <<"WEAK LONG", 2>>
    ELSE IF score <= -4 THEN <<"WEAK SHORT", 2>>
    ELSE <<"HOLD", 0>>

analyze_altcoin_data(a) ==
    LET liq == check_liquidity(a.exchange)
        is_liquid == liq[1]
        ob == liq[2]
        terms == score_terms(a, ob)
        score == sum_points(terms)
        reasons == reasons_of(terms)
        sig == signal_of(score)
        signal == sig[1]
        long == signal \in {"STRONG LONG", "WEAK LONG"}
        \* 2 x the distance for a strong signal, 1 x for a weak one
        k == IF sig[2] = 1 THEN 2 ELSE 1
        mean_reversion == Abs(a.z) * a.atr_pct
        risk == 15 * a.atr_pct
    IN  [absent |-> FALSE,
         signal |-> signal,
         reason |-> IF signal = "HOLD" THEN <<>>
                    ELSE reason_text(reasons, IF sig[2] = 1 THEN 3 ELSE 2),
         confidence |-> IF signal = "HOLD" THEN "low"
                        ELSE final_confidence_of(score, is_liquid, ob),
         rr |-> adjusted_rr_of(a.z, a.atr_pct, is_liquid, ob),
         has_levels |-> signal # "HOLD",
         target |-> IF signal = "HOLD" THEN 0
                    ELSE IF long THEN a.price * (20000 + k * mean_reversion)
                    ELSE a.price * (20000 - k * mean_reversion),
         stop |-> IF signal = "HOLD" THEN 0
                  ELSE IF long THEN a.price * (20000 - k * risk)
                  ELSE a.price * (20000 + k * risk),
         price |-> a.price,
         score |-> score,
         \* locals of the call
         reasons |-> reasons,
         is_liquid |-> is_liquid,
         orderbook_analysis |-> ob]

\* What the exchange answers to check_liquidity.
Exchange(ticker_ok, spread, volume, ob_ok, impact, density, bid_near, ask_near) ==
    [ticker_ok |-> ticker_ok, spread |-> spread, volume_24h |-> volume, ob_ok |-> ob_ok,
     price_impact |-> impact, density_score |-> density,
     bid_near |-> bid_near, ask_near |-> ask_near]
ExchangeAnswers ==
    {Exchange(FALSE, 0, 0, FALSE, 0, 0, FALSE, FALSE),      \* no bid or ask
     Exchange(TRUE, 10, 500, FALSE, 0, 0, FALSE, FALSE),    \* no order book
     Exchange(TRUE, 10, 500, TRUE, 10, 0, FALSE, FALSE),    \* calm book
     Exchange(TRUE, 10, 500, TRUE, 10, 50, TRUE, FALSE),    \* support
     Exchange(TRUE, 10, 500, TRUE, 10, 50, FALSE, TRUE),    \* resistance
     Exchange(TRUE, 10, 500, TRUE, 10, 150, FALSE, FALSE),  \* dense
     Exchange(TRUE, 60, 500, TRUE, 10, 0, FALSE, FALSE),    \* spread 0.6%
     Exchange(TRUE, 10, 5, FALSE, 0, 0, FALSE, FALSE),      \* low volume
     Exchange(TRUE, 10, 500, TRUE, 150, 0, FALSE, FALSE),   \* price impact 1.5%
     Exchange(TRUE, 250, 500, TRUE, 10, 0, FALSE, FALSE)}   \* spread 2.5%
BtcCorrelations ==
    {[present |-> FALSE],
     [present |-> TRUE, correlation |-> 90, divergence |-> FALSE],
     [present |-> TRUE, correlation |-> -60, divergence |-> TRUE]}

AltIdle ==
    /\ alt_pc = "idle" /\ alt_args = NoSignal /\ alt_signal = NoSignal
    /\ alt_requests = <<>>

InitAltArgs ==
    /\ alt_pc = "called"
    /\ \E z \in {-25, -6, 0, 12, 25}, rsi \in {25, 50, 75}, macd \in {-20, 20},
          st \in {50, 90}, volz \in {0, 15}, atr \in {0, 20}, trend \in Trends,
          div \in Divergences, bs \in {1, 5}, bc \in BtcCorrelations,
          ex \in ExchangeAnswers :
          alt_args = [z |-> z, rsi |-> rsi, macd_hist |-> macd, stoch_k |-> st,
                      vol_z |-> volz, atr_pct |-> atr, price |-> 100, trend |-> trend,
                      rsi_div |-> div[1], macd_div |-> div[2], btc_score |-> bs,
                      btc_corr |-> bc, exchange |-> ex]
    /\ alt_signal = NoSignal
    /\ alt_requests = <<>>

AnalyzeAltcoinData ==
    /\ alt_pc = "called"
    /\ alt_signal' = analyze_altcoin_data(alt_args)
    /\ alt_requests' = check_liquidity_requests(alt_args.exchange)
    /\ alt_pc' = "returned"
    /\ UNCHANGED alt_args

(***************************************************************************)
(* main.run_triad_scan_async and main.analyze_altcoin_task                 *)
(* One cycle. The event loop runs one task step at a time; a step is the   *)
(* code between two awaits. The stop flag is set by the signal handler,    *)
(* which can run between any two steps. A fetch is a call of               *)
(* data_collector.fetch_ohlcv_async: it waits for a permit of the          *)
(* semaphore, holds it while its request (and the retries of it) is out,   *)
(* and ends with a frame, a short frame, None or an exception. The         *)
(* retrieval of the altcoin list (lines 65-74) always leaves a non-empty   *)
(* list and is not modelled.                                               *)
(***************************************************************************)
\* The altcoins of the cycle, in the order of the list (config.ALT_COINS).
AltList == <<"ETH", "SOL">>
Workers == 1..Len(AltList)
\* The timeframes fetched for BTC and for each altcoin, in the order of
\* config.BTC_TIMEFRAMES and config.ALT_TIMEFRAMES.
CycleTimeframes == <<"1h", "4h">>
TfSet == {CycleTimeframes[i] : i \in 1..Len(CycleTimeframes)}
\* The permits of the semaphore (5 in config.py; fewer here, with fewer tasks).
MAX_CONCURRENT_REQUESTS == 2
\* The timeouts of the two wait_for calls around the altcoin work, in clock
\* ticks: both are 300.0 seconds in the source.
CycleTimeout == 2
TaskTimeout == 2
MaxClock == 3
NoDeadline == -1
\* How a fetch ends: a frame of 10 candles or more, a shorter frame, None, or
\* an exception (returned by gather as a value).
FetchOutcomes == {"ok", "short", "absent", "raised"}
\* The final labels a task can return in a combined signal.
TaskLabels == {"HOLD", "WEAK_LONG"}

\* `if not running`
stop_requested_never(flag) == FALSE
stop_requested(flag) == ~flag
\* Lines 105-111 and 282-289: the frame is kept unless the result is an
\* exception, None or shorter than 10.
frame_valid_short(result) == result \in {"ok", "short"}
frame_valid(result) == result = "ok"
\* Line 121: `if not btc_signal`.
btc_context_usable_always(ctx) == TRUE
btc_context_usable(ctx) == ~ctx.absent
\* Lines 166-172: a result is kept unless it is an exception or None.
keeps_result_always(result) == TRUE
keeps_result(result) == result # "absent"

CycleInit ==
    /\ running = TRUE /\ cy_pc = "start" /\ cy_i = 0
    /\ cy_ret = "none" /\ cy_abort = "none"
    /\ clock = 0 /\ cy_deadline = NoDeadline /\ in_timer_batch = FALSE
    /\ btc_task_results = [tf \in TfSet |-> "pending"]
    /\ btc_dfs = {} /\ btc_ctx = NoSignal
    /\ sem = 0 /\ all_results = <<>> /\ table = <<>>
    /\ w_pc = [w \in Workers |-> "none"]
    /\ w_ctx = [w \in Workers |-> NoSignal]
    /\ w_fetch = [w \in Workers |-> [tf \in TfSet |-> "idle"]]
    /\ w_deadline = [w \in Workers |-> NoDeadline]
    /\ w_dfs = [w \in Workers |-> {}]
    /\ w_ob = [w \in Workers |-> "idle"]
    /\ w_result = [w \in Workers |-> "none"]
    /\ w_stopped = [w \in Workers |-> FALSE]
CyIdle == CycleInit

\* `return None` of the cycle.
ReturnAbsent(why) ==
    /\ cy_pc' = "returned" /\ cy_ret' = "absent" /\ cy_abort' = why

\* The signal handler (lines 32-36).
SignalHandler ==
    /\ running /\ cy_pc # "returned"
    /\ running' = FALSE
    /\ UNCHANGED <<cy_pc, cy_i, cy_ret, cy_abort, clock, cy_deadline, in_timer_batch,
                   btc_task_results, btc_dfs, btc_ctx, sem, all_results, table, wVars>>

\* Lines 45-47.
CycleStart ==
    /\ cy_pc = "start"
    /\ IF stop_requested(running) THEN ReturnAbsent("stopped")
       ELSE cy_pc' = "btc_fetch" /\ UNCHANGED <<cy_ret, cy_abort>>
    /\ UNCHANGED <<running, cy_i, clock, cy_deadline, in_timer_batch,
                   btc_task_results, btc_dfs, btc_ctx, sem, all_results, table, wVars>>

\* Lines 76-96: the batch of BTC fetches ends with one result per timeframe,
\* or its wait_for times out.
BtcFetchBatch ==
    /\ cy_pc = "btc_fetch"
    /\ \/ /\ \E res \in [TfSet -> FetchOutcomes] : btc_task_results' = res
          /\ cy_pc' = "btc_process" /\ cy_i' = 1
          /\ UNCHANGED <<cy_ret, cy_abort>>
       \/ /\ ReturnAbsent("btc_timeout")
          /\ UNCHANGED <<btc_task_results, cy_i>>
    /\ UNCHANGED <<running, clock, cy_deadline, in_timer_batch,
                   btc_dfs, btc_ctx, sem, all_results, table, wVars>>

\* Lines 98-116: one iteration of the loop over the BTC results, and the test
\* after the last one. task_results is not read after the loop and is dropped.
BtcProcess ==
    /\ cy_pc = "btc_process"
    /\ IF stop_requested(running)
       THEN ReturnAbsent("stopped") /\ UNCHANGED <<btc_dfs, cy_i, btc_task_results>>
       ELSE LET tf == CycleTimeframes[cy_i]
                dfs == IF frame_valid(btc_task_results[tf])
                       THEN btc_dfs \cup {tf} ELSE btc_dfs
            IN  /\ btc_dfs' = dfs
                /\ IF cy_i < Len(CycleTimeframes)
                   THEN /\ cy_i' = cy_i + 1
                        /\ UNCHANGED <<cy_pc, cy_ret, cy_abort, btc_task_results>>
                   ELSE /\ cy_i' = 0
                        /\ btc_task_results' = [t \in TfSet |-> "pending"]
                        /\ IF dfs = {} THEN ReturnAbsent("btc_no_data")
                           ELSE cy_pc' = "btc_analyze" /\ UNCHANGED <<cy_ret, cy_abort>>
    /\ UNCHANGED <<running, clock, cy_deadline, in_timer_batch,
                   btc_ctx, sem, all_results, table, wVars>>

\* Lines 118-126: analyze_btc_data returns a context formed from the frames
\* kept, or None (it returns None on any exception).
BtcAnalyze ==
    /\ cy_pc = "btc_analyze"
    /\ \E ctx \in {[absent |-> FALSE, frames |-> btc_dfs], NoSignal} :
          /\ btc_ctx' = ctx
          /\ IF btc_context_usable(ctx)
             THEN cy_pc' = "create_tasks" /\ cy_i' = 1 /\ UNCHANGED <<cy_ret, cy_abort>>
             ELSE ReturnAbsent("btc_no_context") /\ UNCHANGED cy_i
    /\ UNCHANGED <<running, clock, cy_deadline, in_timer_batch,
                   btc_task_results, btc_dfs, sem, all_results, table, wVars>>

\* Lines 140-150: one iteration of the loop that creates the altcoin tasks;
\* after the last one the tasks are handed to gather under wait_for.
CreateTask ==
    /\ cy_pc = "create_tasks"
    /\ IF stop_requested(running)
       THEN /\ ReturnAbsent("stopped")
            /\ UNCHANGED <<cy_i, cy_deadline, w_pc, w_ctx>>
       ELSE /\ w_pc' = [w_pc EXCEPT ![cy_i] = "created"]
            /\ w_ctx' = [w_ctx EXCEPT ![cy_i] = btc_ctx]
            /\ IF cy_i < Len(AltList)
               THEN cy_i' = cy_i + 1 /\ UNCHANGED <<cy_pc, cy_deadline>>
               ELSE /\ cy_pc' = "gather" /\ cy_i' = 0
                    /\ cy_deadline' = clock + CycleTimeout
            /\ UNCHANGED <<cy_ret, cy_abort>>
    /\ UNCHANGED <<running, clock, in_timer_batch, btc_task_results, btc_dfs, btc_ctx,
                   sem, all_results, table,
                   w_fetch, w_deadline, w_dfs, w_ob, w_result, w_stopped>>

\* The requests of altcoin tasks that are out at the exchange: candle fetches
\* holding a permit and order-book fetches.
requests_in_flight ==
    Cardinality({<<w, tf>> \in Workers \X TfSet : w_fetch[w][tf] = "inflight"})
    + Cardinality({w \in Workers : w_ob[w] = "inflight"})

\* Lines 247-267: the task's first step: the stop check, then the candle
\* fetches are created and awaited under wait_for.
TaskStart(w) ==
    /\ cy_pc = "gather" /\ ~in_timer_batch /\ w_pc[w] = "created"
    /\ IF stop_requested(running)
       THEN /\ w_pc' = [w_pc EXCEPT ![w] = "done"]
            /\ w_result' = [w_result EXCEPT ![w] = "absent"]
            /\ w_stopped' = [w_stopped EXCEPT ![w] = TRUE]
            /\ UNCHANGED <<w_fetch, w_deadline>>
       ELSE /\ w_pc' = [w_pc EXCEPT ![w] = "fetching"]
            /\ w_fetch' = [w_fetch EXCEPT ![w] = [tf \in TfSet |-> "waiting"]]
            /\ w_deadline' = [w_deadline EXCEPT ![w] = clock + TaskTimeout]
            /\ UNCHANGED <<w_result, w_stopped>>
    /\ UNCHANGED <<cyVars, w_ctx, w_dfs, w_ob>>

\* data_collector.fetch_ohlcv_async line 13: the fetch enters the semaphore.
FetchAcquire(w, tf) ==
    /\ cy_pc = "gather" /\ ~in_timer_batch
    /\ w_pc[w] = "fetching" /\ w_fetch[w][tf] = "waiting"
    /\ sem < MAX_CONCURRENT_REQUESTS
    /\ sem' = sem + 1
    /\ w_fetch' = [w_fetch EXCEPT ![w][tf] = "inflight"]
    /\ UNCHANGED <<running, cy_pc, cy_i, cy_ret, cy_abort, clock, cy_deadline,
                   in_timer_batch, btc_task_results, btc_dfs, btc_ctx, all_results, table,
                   w_pc, w_ctx, w_deadline, w_dfs, w_ob, w_result, w_stopped>>

\* data_collector.fetch_ohlcv_async lines 14-49: the fetch ends and leaves the
\* semaphore.
FetchDone(w, tf) ==
    /\ cy_pc = "gather" /\ ~in_timer_batch
    /\ w_pc[w] = "fetching" /\ w_fetch[w][tf] = "inflight"
    /\ \E res \in FetchOutcomes : w_fetch' = [w_fetch EXCEPT ![w][tf] = res]
    /\ sem' = sem - 1
    /\ UNCHANGED <<running, cy_pc, cy_i, cy_ret, cy_abort, clock, cy_deadline,
                   in_timer_batch, btc_task_results, btc_dfs, btc_ctx, all_results, table,
                   w_pc, w_ctx, w_deadline, w_dfs, w_ob, w_result, w_stopped>>

\* Lines 278-297: the candle results are sorted out; with no frame left the
\* task returns None, otherwise it requests the order book. ohlcv_results is
\* not read after the loop and is dropped ("collected").
TaskProcess(w) ==
    /\ cy_pc = "gather" /\ ~in_timer_batch
    /\ w_pc[w] = "fetching" /\ \A tf \in TfSet : w_fetch[w][tf] \in FetchOutcomes
    /\ LET dfs == {tf \in TfSet : frame_valid(w_fetch[w][tf])}
       IN  /\ w_dfs' = [w_dfs EXCEPT ![w] = dfs]
           /\ IF dfs = {}
              THEN /\ w_pc' = [w_pc EXCEPT ![w] = "done"]
                   /\ w_result' = [w_result EXCEPT ![w] = "absent"]
                   /\ UNCHANGED w_ob
              ELSE /\ w_pc' = [w_pc EXCEPT ![w] = "orderbook"]
                   /\ w_ob' = [w_ob EXCEPT ![w] = "inflight"]
                   /\ UNCHANGED w_result
    /\ w_fetch' = [w_fetch EXCEPT ![w] = [tf \in TfSet |-> "collected"]]
    /\ w_deadline' = [w_deadline EXCEPT ![w] = NoDeadline]
    /\ UNCHANGED <<cyVars, w_ctx, w_stopped>>

\* Lines 297-320: fetch_orderbook_async returns (a book or None, which is not
\* read by the analysis), and the task analyses and combines without another
\* await: it returns a combined signal or None.
TaskAnalyze(w) ==
    /\ cy_pc = "gather" /\ ~in_timer_batch /\ w_pc[w] = "orderbook"
    /\ w_ob' = [w_ob EXCEPT ![w] = "returned"]
    /\ \E res \in TaskLabels \cup {"absent"} : w_result' = [w_result EXCEPT ![w] = res]
    /\ w_pc' = [w_pc EXCEPT ![w] = "done"]
    /\ UNCHANGED <<cyVars, w_ctx, w_fetch, w_deadline, w_dfs, w_stopped>>

\* Time passes while the tasks are awaited.
ClockTick ==
    /\ cy_pc = "gather" /\ ~in_timer_batch /\ clock < MaxClock
    /\ clock' = clock + 1
    /\ UNCHANGED <<running, cy_pc, cy_i, cy_ret, cy_abort, cy_deadline, in_timer_batch,
                   btc_task_results, btc_dfs, btc_ctx, sem, all_results, table, wVars>>

\* A fetch state after its task was cancelled.
cancelled_fetch(st) == IF st \in {"waiting", "inflight"} THEN "cancelled" ELSE st

\* The timers of the two wait_for calls. The loop runs the due timers in the
\* order of their deadlines, all of them before the next task step.
timer_due(w) == w_pc[w] = "fetching" /\ clock >= w_deadline[w]
cycle_timer_due == cy_pc = "gather" /\ clock >= cy_deadline

\* Lines 151-153: the timer of the cycle's wait_for (line 149) fires: gather is
\* cancelled with every task still running, and the cycle returns None.
CycleTimerFires ==
    /\ cycle_timer_due
    /\ \A w \in Workers : timer_due(w) => cy_deadline <= w_deadline[w]
    /\ w_pc' = [w \in Workers |->
                   IF w_pc[w] \in {"done", "timed_out"} THEN w_pc[w] ELSE "cancelled"]
    /\ w_fetch' = [w \in Workers |-> [tf \in TfSet |-> cancelled_fetch(w_fetch[w][tf])]]
    /\ w_ob' = [w \in Workers |-> IF w_ob[w] = "inflight" THEN "cancelled" ELSE w_ob[w]]
    /\ sem' = 0
    /\ in_timer_batch' = FALSE
    /\ cy_deadline' = NoDeadline
    /\ ReturnAbsent("alt_timeout")
    /\ UNCHANGED <<running, cy_i, clock, btc_task_results, btc_dfs, btc_ctx,
                   all_results, table, w_ctx, w_deadline, w_dfs, w_result, w_stopped>>

\* Lines 268-270: the timer of a task's wait_for (line 266) fires: its fetches
\* are cancelled and the task is to return None at its next step.
TaskTimerFires(w) ==
    /\ cy_pc = "gather" /\ timer_due(w)
    /\ cycle_timer_due => w_deadline[w] <= cy_deadline
    /\ \A v \in Workers : timer_due(v) => w_deadline[w] <= w_deadline[v]
    /\ w_pc' = [w_pc EXCEPT ![w] = "timed_out"]
    /\ w_result' = [w_result EXCEPT ![w] = "absent"]
    /\ w_fetch' = [w_fetch EXCEPT ![w] = [tf \in TfSet |-> cancelled_fetch(w_fetch[w][tf])]]
    /\ sem' = sem - Cardinality({tf \in TfSet : w_fetch[w][tf] = "inflight"})
    /\ in_timer_batch' = (cycle_timer_due \/ \E v \in Workers \ {w} : timer_due(v))
    /\ UNCHANGED <<running, cy_pc, cy_i, cy_ret, cy_abort, clock, cy_deadline,
                   btc_task_results, btc_dfs, btc_ctx, all_results, table,
                   w_ctx, w_deadline, w_dfs, w_ob, w_stopped>>

\* Line 147: gather returns once every task has returned.
GatherDone ==
    /\ cy_pc = "gather" /\ ~in_timer_batch
    /\ \A w \in Workers : w_pc[w] \in {"done", "timed_out"}
    /\ cy_pc' = "process" /\ cy_i' = 1 /\ cy_deadline' = NoDeadline
    /\ UNCHANGED <<running, cy_ret, cy_abort, clock, in_timer_batch,
                   btc_task_results, btc_dfs, btc_ctx, sem, all_results, table, wVars>>

\* Lines 162-199: one iteration of the loop over the task results.
ProcessResult ==
    /\ cy_pc = "process"
    /\ IF stop_requested(running)
       THEN ReturnAbsent("stopped") /\ UNCHANGED <<cy_i, all_results>>
       ELSE /\ all_results' = IF keeps_result(w_result[cy_i])
                              THEN Append(all_results, cy_i) ELSE all_results
            /\ IF cy_i < Len(AltList)
               THEN cy_i' = cy_i + 1 /\ UNCHANGED cy_pc
               ELSE cy_i' = 0 /\ cy_pc' = "save"
            /\ UNCHANGED <<cy_ret, cy_abort>>
    /\ UNCHANGED <<running, clock, cy_deadline, in_timer_batch,
                   btc_task_results, btc_dfs, btc_ctx, sem, table, wVars>>

\* Lines 203-245: one row per kept result, written when there is any.
SaveResults ==
    /\ cy_pc = "save"
    /\ IF all_results # <<>>
       THEN /\ table' = [i \in 1..Len(all_results) |->
                            [alt |-> AltList[all_results[i]],
                             final_signal |-> w_result[all_results[i]]]]
            /\ cy_pc' = "returned" /\ cy_ret' = "table"
            /\ UNCHANGED cy_abort
       ELSE ReturnAbsent("no_results") /\ UNCHANGED table
    /\ UNCHANGED <<running, cy_i, clock, cy_deadline, in_timer_batch,
                   btc_task_results, btc_dfs, btc_ctx, sem, all_results, wVars>>

(***************************************************************************)
(***************************************************************************)
(* feature_calculator.calculate_trend                                      *)
(* A frame is given by what the function reads of it: its number of        *)
(* candles, and how calculate_ema(close, EMA_SHORT) and                    *)
(* calculate_ema(close, EMA_LONG) compare on the last candle ("gt", "lt",  *)
(* or "eq" when neither comparison holds, which includes a NaN).           *)
(***************************************************************************)
EMA_SHORT == 50
\* main_tf_order as analyze_altcoin_data passes it (signal_analyzer.py line 211)
main_tf_order == <<"4h", "1h", "15m">>
TrendTfs == {main_tf_order[i] : i \in 1..Len(main_tf_order)}
AbsentFrame == [absent |-> TRUE]
TrendLens == {0, 30, 60, 250}
TrendFrames ==
    {AbsentFrame} \cup
    {[absent |-> FALSE, len |-> n, cross |-> c] : n \in TrendLens, c \in {"gt", "lt", "eq"}}

Max2(a, b) == IF a >= b THEN a ELSE b

\* Lines 307-311: main_df is the first frame of the order that is present and
\* holds a candle; "none" stands for main_df = None.
main_tf_nonempty(df) == ~df.absent /\ df.len > 0
main_tf_long_enough(df) == ~df.absent /\ df.len >= Max2(EMA_SHORT, 10)
main_df_tf(dfs) ==
    LET present == {i \in 1..Len(main_tf_order) : main_tf_nonempty(dfs[main_tf_order[i]])}
    IN  IF present = {} THEN "none"
        ELSE main_tf_order[CHOOSE i \in present : \A k \in present : i <= k]

\* Lines 312-323.
calculate_trend(dfs) ==
    LET tf == main_df_tf(dfs)
        trend_direction ==
            IF tf # "none" /\ main_tf_long_enough(dfs[tf])
            THEN IF dfs[tf].cross = "gt" THEN "up"
                 ELSE IF dfs[tf].cross = "lt" THEN "down" ELSE "neutral"
            ELSE "neutral"
    IN  <<trend_direction, tf>>

TrIdle ==
    /\ tr_pc = "idle" /\ tr_dfs = [tf \in TrendTfs |-> AbsentFrame]
    /\ tr_result = <<"none", "none">>

InitTrendArgs ==
    /\ tr_pc = "called"
    /\ tr_dfs \in [TrendTfs -> TrendFrames]
    /\ tr_result = <<"none", "none">>

CalculateTrend ==
    /\ tr_pc = "called"
    /\ tr_result' = calculate_trend(tr_dfs)
    /\ tr_pc' = "returned"
    /\ UNCHANGED tr_dfs

(***************************************************************************)
(* The indicator functions of feature_calculator on short series, and      *)
(* calculate_z_score on a window of equal values.                          *)
(*                                                                         *)
(* The closes are IEEE 754 binary64 numbers. A positive one is modelled by *)
(* its 53 significand bits (most significant first) and the exponent of    *)
(* the leading bit; a sum and a quotient are rounded to nearest, ties to   *)
(* even, as the hardware does. window_data.mean() is the sum of the window *)
(* divided by its length; the sum is taken in the order of numpy's         *)
(* pairwise reduction, or one value after the other (the order used when   *)
(* pandas runs with bottleneck).                                           *)
(***************************************************************************)
Z_WINDOW == 20
RSI_PERIOD == 14
ATR_PERIOD == 14
MacdFast == 12
MacdSlow == 26
MacdSignal == 9
StochSmoothK == 3
StochSmoothD == 3
CorrelationWindow == 30
DivergencePeriods == 5
MinCandles == 10

SignificandBits == 53
\* A significand is kept as a number in base 2^20, least significant digit first.
LimbBits == 20
Limb == 2^LimbBits

RECURSIVE HexVal(_)
HexVal(h) == IF h = <<>> THEN 0 ELSE 16 * HexVal(SubSeq(h, 1, Len(h) - 1)) + h[Len(h)]
\* The binary64 number 1.h * 2^e, h being the 13 hexadecimal digits of the
\* fraction: significand 2^52 + h, exponent of its last bit e - 52.
F64(h, e) ==
    [m |-> <<HexVal(SubSeq(h, 9, 13)), HexVal(SubSeq(h, 4, 8)), 4096 + HexVal(SubSeq(h, 1, 3))>>,
     e |-> e - (SignificandBits - 1)]

RECURSIVE BigAdd(_, _, _)
BigAdd(a, b, carry) ==
    IF a = <<>> /\ b = <<>> THEN (IF carry = 0 THEN <<>> ELSE <<carry>>)
    ELSE LET t == (IF a = <<>> THEN 0 ELSE Head(a)) + (IF b = <<>> THEN 0 ELSE Head(b)) + carry
         IN  <<t % Limb>> \o BigAdd(IF a = <<>> THEN a ELSE Tail(a),
                                    IF b = <<>> THEN b ELSE Tail(b), t \div Limb)

\* a * k, k below 2^10
RECURSIVE BigMulSmall(_, _, _)
BigMulSmall(a, k, carry) ==
    IF a = <<>> THEN (IF carry = 0 THEN <<>> ELSE <<carry>>)
    ELSE LET t == Head(a) * k + carry
         IN  <<t % Limb>> \o BigMulSmall(Tail(a), k, t \div Limb)

RECURSIVE StripTop(_)
StripTop(a) ==
    IF a # <<>> /\ a[Len(a)] = 0 THEN StripTop(SubSeq(a, 1, Len(a) - 1)) ELSE a

\* The quotient and the remainder of the digits i.. of a by n, n at most 2^10.
RECURSIVE DivFrom(_, _, _)
DivFrom(a, n, i) ==
    IF i > Len(a) THEN [q |-> <<>>, r |-> 0]
    ELSE LET p == DivFrom(a, n, i + 1)
             t == p.r * Limb + a[i]
         IN  [q |-> <<t \div n>> \o p.q, r |-> t % n]
BigDivSmall(a, n) == LET p == DivFrom(a, n, 1) IN [q |-> StripTop(p.q), r |-> p.r]

BitLen(a) ==
    (Len(a) - 1) * LimbBits
       + (CHOOSE k \in 1..LimbBits : 2^(k - 1) <= a[Len(a)] /\ a[Len(a)] < 2^k)

\* Round the positive number big * 2^lsb (sticky tells of a remainder below
\* its last bit) to SignificandBits bits, to nearest, ties to even.
RoundBig(big, lsb, sticky) ==
    LET drop == BitLen(big) - SignificandBits
    IN  IF drop <= 0
        THEN [m |-> BigMulSmall(big, 2^(-drop), 0), e |-> lsb + drop]
        ELSE LET d    == BigDivSmall(big, 2^drop)
                 half == 2^(drop - 1)
                 up   == d.r > half \/ (d.r = half /\ (sticky \/ d.q[1] % 2 = 1))
                 inc  == IF up THEN BigAdd(d.q, <<1>>, 0) ELSE d.q
             IN  IF BitLen(inc) > SignificandBits
                 THEN [m |-> BigDivSmall(inc, 2).q, e |-> lsb + drop + 1]
                 ELSE [m |-> inc, e |-> lsb + drop]

\* x + y for positive binary64 numbers whose exponents differ by less than 10.
FAddOrdered(hi, lo) ==
    RoundBig(BigAdd(BigMulSmall(hi.m, 2^(hi.e - lo.e), 0), lo.m, 0), lo.e, FALSE)
FAdd(x, y) == IF x.e >= y.e THEN FAddOrdered(x, y) ELSE FAddOrdered(y, x)

\* x / n for a positive binary64 number and a positive integer below 2^10.
DivGuard == 10
FDivInt(x, n) ==
    LET d == BigDivSmall(BigMulSmall(x.m, 2^DivGuard, 0), n)
    IN  RoundBig(d.q, x.e - DivGuard, d.r # 0)

\* x < y for positive binary64 numbers.
RECURSIVE BigLess(_, _, _)
BigLess(a, b, i) ==
    IF i = 0 THEN FALSE
    ELSE IF a[i] # b[i] THEN a[i] < b[i] ELSE BigLess(a, b, i - 1)
FLess(x, y) == x.e < y.e \/ (x.e = y.e /\ BigLess(x.m, y.m, Len(x.m)))

\* The sum of n values, all equal to c, one after the other.
RECURSIVE SumSequential(_, _)
SumSequential(c, n) == IF n = 1 THEN c ELSE FAdd(SumSequential(c, n - 1), c)

\* acc + c, k times.
RECURSIVE AddTimes(_, _, _)
AddTimes(acc, c, k) == IF k = 0 THEN acc ELSE AddTimes(FAdd(acc, c), c, k - 1)

\* numpy's pairwise sum of n equal values, 8 <= n <= 128: eight running sums
\* over the blocks of eight, added in pairs, then the n % 8 values left.
SumPairwise(c, n) ==
    IF n < 8 THEN SumSequential(c, n)
    ELSE LET r  == SumSequential(c, n \div 8)
             r2 == FAdd(r, r)
             r4 == FAdd(r2, r2)
         IN  AddTimes(FAdd(r4, r4), c, n % 8)

WindowMean(c, n, order) ==
    FDivInt(IF order = "pairwise" THEN SumPairwise(c, n) ELSE SumSequential(c, n), n)

\* The integer square root of a number below 10^6.
ISqrt(x) == CHOOSE r \in 0..1000 : r * r <= x /\ (r + 1) * (r + 1) > x

\* Lines 24-30 on a window of `window` values all equal to c. std is 0 exactly
\* when the mean computed equals c: every (mean - x)**2 is then 0. Otherwise
\* all deviations are one number d # 0, std is |d| * sqrt(window/(window-1))
\* and z is d / std, that is sqrt((window-1)/window) with the sign of d; z is
\* given in thousandths. The mean and std returned are not modelled further.
z_of_constant_window(c, window, order) ==
    LET mean == WindowMean(c, window, order)
    IN  IF mean = c THEN [z |-> 0, std_is_zero |-> TRUE]
        ELSE [z |-> (IF FLess(mean, c) THEN 1 ELSE -1)
                        * ISqrt(((window - 1) * 1000000) \div window),
              std_is_zero |-> FALSE]

\* The closes a constant window is made of: 0.1, 0.3, 0.07, 100.0, 0.5, 2.35.
ConstantCloses ==
    [c01   |-> F64(<<9, 9, 9, 9, 9, 9, 9, 9, 9, 9, 9, 9, 10>>, -4),
     c03   |-> F64(<<3, 3, 3, 3, 3, 3, 3, 3, 3, 3, 3, 3, 3>>, -2),
     c007  |-> F64(<<1, 14, 11, 8, 5, 1, 14, 11, 8, 5, 1, 14, 12>>, -4),
     c100  |-> F64(<<9, 0, 0, 0, 0, 0, 0, 0, 0, 0, 0, 0, 0>>, 6),
     c05   |-> F64(<<0, 0, 0, 0, 0, 0, 0, 0, 0, 0, 0, 0, 0>>, -1),
     c235  |-> F64(<<2, 12, 12, 12, 12, 12, 12, 12, 12, 12, 12, 12, 13>>, 1)]
ConstantNames == DOMAIN ConstantCloses

Max3(a, b, c) == Max2(a, Max2(b, c))

\* The value each function returns before it computes anything, in
\* thousandths where it is a number.
Computed == [computed |-> TRUE]
ZDefault == [z |-> 0, mean |-> 0, std |-> 0]
RsiDefault == [rsi |-> 50000]
MacdDefault == [macd |-> 0, signal |-> 0, hist |-> 0]
StochDefault == [k |-> 500, d |-> 500]
AtrDefault == [atr |-> 0]
CorrDefault == [corr |-> 0]
\* (False, "not enough data")
DivDefault == [divergent |-> FALSE, text |-> "not enough data"]

\* Lines 20-32. A series is "constant" (all values equal to call.c) or
\* "varying"; the value computed on a varying series is not modelled.
calculate_z_score(call) ==
    IF call.n < Z_WINDOW \/ Z_WINDOW <= 0 THEN ZDefault
    ELSE IF call.series = "constant"
         THEN z_of_constant_window(ConstantCloses[call.c], Z_WINDOW, call.order)
         ELSE Computed
\* Lines 34-37
calculate_rsi(call) == IF call.n < Max2(2, RSI_PERIOD) THEN RsiDefault ELSE Computed
\* Lines 56-58
calculate_macd(call) ==
    IF call.n < Max3(MacdFast, MacdSlow, MacdSignal) + 2 THEN MacdDefault ELSE Computed
\* Lines 72-74
calculate_stoch_rsi(call) ==
    IF call.n < Max3(RSI_PERIOD, StochSmoothK, StochSmoothD) + 5 THEN StochDefault ELSE Computed
\* Lines 95-97
calculate_atr_level(call) == IF call.n < Max2(ATR_PERIOD, 2) THEN AtrDefault ELSE Computed
\* Lines 115-119
check_divergence_improved(call) ==
    IF call.n < DivergencePeriods + 10 \/ call.n2 < DivergencePeriods + 10
    THEN DivDefault ELSE Computed
\* Lines 200-203 of calculate_indicators_for_timeframe: call.n = -1 stands
\* for df = None.
indicators_frame_guard(call) ==
    IF call.n = -1 \/ call.n < MinCandles THEN NoSignal ELSE Computed

IndicatorFns == {"z", "rsi", "macd", "stoch", "atr", "corr", "div", "tf"}
indicator(call) ==
    CASE call.fn = "z" -> calculate_z_score(call)
      [] call.fn = "rsi" -> calculate_rsi(call)
      [] call.fn = "macd" -> calculate_macd(call)
      [] call.fn = "stoch" -> calculate_stoch_rsi(call)
      [] call.fn = "atr" -> calculate_atr_level(call)
      [] call.fn = "corr" ->
            [corr |-> calculate_correlation(call.n, call.n2, call.pearson, CorrelationWindow)]
      [] call.fn = "div" -> check_divergence_improved(call)
      [] call.fn = "tf" -> indicators_frame_guard(call)

\* The longest series handed in.
MaxSeries == 31
NoCall == [fn |-> "none"]

IndIdle == ind_pc = "idle" /\ ind_call = NoCall /\ ind_result = NoSignal

InitIndicatorArgs ==
    /\ ind_pc = "called"
    /\ ind_result = NoSignal
    /\ \/ \E fn \in IndicatorFns \ {"z", "corr", "div"}, n \in -1..MaxSeries :
             /\ (n = -1 => fn = "tf")
             /\ ind_call = [fn |-> fn, n |-> n]
       \/ \E n \in 0..MaxSeries, n2 \in {0, 29, 30}, pearson \in {-50, 80} :
             ind_call = [fn |-> "corr", n |-> n, n2 |-> n2, pearson |-> pearson]
       \/ \E n \in 0..MaxSeries, n2 \in {0, 14, 15} :
             ind_call = [fn |-> "div", n |-> n, n2 |-> n2]
       \/ \E n \in 0..MaxSeries, c \in ConstantNames, order \in {"pairwise", "sequential"} :
             ind_call = [fn |-> "z", n |-> n, series |-> "constant", c |-> c, order |-> order]
       \/ \E n \in 0..MaxSeries :
             ind_call = [fn |-> "z", n |-> n, series |-> "varying"]

CallIndicator ==
    /\ ind_pc = "called"
    /\ ind_result' = indicator(ind_call)
    /\ ind_pc' = "returned"
    /\ UNCHANGED ind_call

(***************************************************************************)
(* notifier.send_telegram_alert_enhanced and notifier.send_telegram_message *)
(* A message is given by its kind ("full" for the alert of lines 59-81,    *)
(* "accumulation" for the one of lines 89-96) and the fields it names.     *)
(***************************************************************************)
NotifierConfidences == {"high", "medium", "low"}
NotifierAltLabels == {"STRONG_LONG", "LONG", "WEAK_LONG", "HOLD", "WEAK_SHORT", "SHORT",
                      "STRONG_SHORT", "ACCUMULATION"}
NotifierFinalSignals == {"STRONG_LONG", "LONG", "WEAK_LONG", "HOLD", "WEAK_SHORT", "SHORT",
                         "STRONG_SHORT"}

\* Line 34
alerts_in_full_any(confidence) == TRUE
alerts_in_full(confidence) == confidence \in {"high", "medium"}

\* Lines 8-28: the messages posted by one call (the request is made whatever
\* its outcome; nothing is posted with the notifier disabled).
send_telegram_message(enabled, text) == IF ~enabled THEN <<>> ELSE <<text>>

\* Lines 30-97
send_telegram_alert_enhanced(enabled, combined_signal) ==
    IF ~enabled THEN <<>>
    ELSE IF alerts_in_full(combined_signal.confidence)
    THEN send_telegram_message(enabled,
             [kind |-> "full", final_signal |-> combined_signal.final_signal,
              alt_signal |-> combined_signal.alt.signal])
    ELSE IF combined_signal.alt.signal = "ACCUMULATION" /\ enabled
    THEN send_telegram_message(enabled, [kind |-> "accumulation"])
    ELSE <<>>

NtIdle ==
    /\ nt_pc = "idle" /\ nt_enabled = FALSE /\ nt_sent = <<>>
    /\ nt_signal = [confidence |-> "low", final_signal |-> "HOLD", alt |-> [signal |-> "HOLD"]]

InitNotifierArgs ==
    /\ nt_pc = "called" /\ nt_sent = <<>>
    /\ nt_enabled \in BOOLEAN
    /\ \E c \in NotifierConfidences, f \in NotifierFinalSignals, a \in NotifierAltLabels :
          nt_signal = [confidence |-> c, final_signal |-> f, alt |-> [signal |-> a]]

SendTelegramAlertEnhanced ==
    /\ nt_pc = "called"
    /\ nt_sent' = send_telegram_alert_enhanced(nt_enabled, nt_signal)
    /\ nt_pc' = "returned"
    /\ UNCHANGED <<nt_enabled, nt_signal>>

(***************************************************************************)
(* data_collector.fetch_ohlcv_async and fetch_orderbook_async,             *)
(* market_data.fetch_top_altcoins, and the exchange clients of a cycle     *)
(* One cycle creates the client of run_triad_scan_async (main.py line 55), *)
(* the client of fetch_top_altcoins, one client per attempt of every       *)
(* fetch_ohlcv_async, and one per fetch_orderbook_async. The cycle is      *)
(* followed here through one call of each. A client is named by the        *)
(* function that created it and, for the candle fetch, the attempt.        *)
(* A step is the code between two awaits; the close() of a finally block   *)
(* belongs to the step that leaves the try block. A cancellation (the      *)
(* wait_for of main.py lines 87 and 264 timing out) is delivered at an     *)
(* await, once.                                                            *)
(***************************************************************************)
MAX_RETRY_ATTEMPTS == 2
RETRY_DELAY == 2

Client(creator, n) == [creator |-> creator, n |-> n]
exchange_sync == Client("run_triad_scan_async", 0)

\* How a request of fetch_ohlcv_async can end: rows without a missing value,
\* an empty payload, rows with a missing value, asyncio.TimeoutError, any
\* other exception.
RequestOutcomes == {"frame", "empty", "nulls", "timeout", "error"}
RequestFailures == {"timeout", "error"}

ClIdle == cl_pc = "idle" /\ cl_open = {} /\ cl_uses = 0
FtIdle ==
    /\ ft_pc = "idle" /\ attempt = 0 /\ exchange_async = "none" /\ ft_holds = FALSE
    /\ ft_others = 0 /\ ft_log = <<>> /\ ft_waited = 0 /\ ft_ret = "none"

FetchInit ==
    /\ cl_pc = "start" /\ cl_open = {} /\ cl_uses = 0
    /\ ft_pc = "idle" /\ attempt = 0 /\ exchange_async = "none" /\ ft_holds = FALSE
    /\ ft_others = 0
    /\ ft_log = <<>> /\ ft_waited = 0 /\ ft_ret = "none"

\* main.py lines 55-58: the synchronous client of the cycle.
CreateExchangeSync ==
    /\ cl_pc = "start"
    /\ cl_open' = cl_open \cup {exchange_sync}
    /\ cl_pc' = "top"
    /\ UNCHANGED <<cl_uses, ftVars>>

\* market_data.py lines 31-47: fetch_top_altcoins creates its client and
\* awaits load_markets.
TopCreate ==
    /\ cl_pc = "top"
    /\ cl_open' = cl_open \cup {Client("fetch_top_altcoins", 0)}
    /\ cl_pc' = "top_request"
    /\ UNCHANGED <<cl_uses, ftVars>>

\* market_data.py lines 116-125: it returns the list or raises again, and
\* closes the client in the finally block either way. The cycle then calls
\* fetch_ohlcv_async (main.py lines 80-84).
TopFinish ==
    /\ cl_pc = "top_request"
    /\ cl_open' = cl_open \ {Client("fetch_top_altcoins", 0)}
    /\ cl_pc' = "ohlcv"
    /\ ft_pc' = "called"
    /\ UNCHANGED <<cl_uses, attempt, exchange_async, ft_holds, ft_others, ft_log,
                   ft_waited, ft_ret>>

\* Other fetches of the cycle enter and leave the semaphore.
OtherAcquire ==
    /\ ft_pc \in {"called", "request", "sleep"}
    /\ ft_others + (IF ft_holds THEN 1 ELSE 0) < MAX_CONCURRENT_REQUESTS
    /\ ft_others' = ft_others + 1
    /\ UNCHANGED <<clVars, ft_pc, attempt, exchange_async, ft_holds, ft_log, ft_waited,
                   ft_ret>>

OtherRelease ==
    /\ ft_pc \in {"called", "request", "sleep"}
    /\ ft_others > 0
    /\ ft_others' = ft_others - 1
    /\ UNCHANGED <<clVars, ft_pc, attempt, exchange_async, ft_holds, ft_log, ft_waited,
                   ft_ret>>

\* Line 13: async with semaphore_to_use; line 14: exchange_async = None.
FetchEnter ==
    /\ ft_pc = "called"
    /\ ft_others < MAX_CONCURRENT_REQUESTS
    /\ ft_holds' = TRUE
    /\ attempt' = 0
    /\ exchange_async' = "none"
    /\ ft_pc' = "attempt"
    /\ UNCHANGED <<clVars, ft_others, ft_log, ft_waited, ft_ret>>

\* Lines 15-22: an iteration of the loop creates a client and awaits
\* fetch_ohlcv.
FetchAttempt ==
    /\ ft_pc = "attempt"
    /\ exchange_async' = "open"
    /\ cl_open' = cl_open \cup {Client("fetch_ohlcv_async", attempt)}
    /\ ft_pc' = "request"
    /\ UNCHANGED <<cl_pc, cl_uses, attempt, ft_holds, ft_others, ft_log, ft_waited, ft_ret>>

retries_all(n) == n <= MAX_RETRY_ATTEMPTS

\* Lines 33 and 40: a failed attempt is retried when it is not the last.
retries(n) == n < MAX_RETRY_ATTEMPTS

\* What the call returns for an answered request (lines 23-30): None for an
\* empty payload or rows with a missing value, the frame otherwise.
fetch_return(outcome) == IF outcome = "frame" THEN "frame" ELSE "absent"

\* Lines 45-48 and the exit of the async with block: the finally block
\* closes the client, leaving the block releases the permit.
FetchLeave(ret) ==
    /\ exchange_async' = (IF exchange_async = "open" THEN "closed" ELSE exchange_async)
    /\ cl_open' = cl_open \ {Client("fetch_ohlcv_async", attempt)}
    /\ ft_holds' = FALSE
    /\ ft_ret' = ret
    /\ ft_pc' = "returned"

\* Lines 22-44: the request is answered. A payload returns at once; a
\* failure that is not the last one goes to sleep inside the except block,
\* with the client still open; the last failure returns None.
FetchAnswer(outcome) ==
    /\ ft_pc = "request"
    /\ ft_log' = Append(ft_log, outcome)
    /\ IF outcome \in RequestFailures /\ retries(attempt)
       THEN /\ ft_pc' = "sleep"
            /\ UNCHANGED <<clVars, attempt, exchange_async, ft_holds, ft_others,
                           ft_waited, ft_ret>>
       ELSE /\ FetchLeave(fetch_return(outcome))
            /\ UNCHANGED <<cl_pc, cl_uses, attempt, ft_others, ft_waited>>

\* Lines 34 and 41, then 45-48 and the next iteration: the sleep of
\* RETRY_DELAY seconds ends, the finally block closes the client of the
\* failed attempt, and the loop goes on.
FetchWake ==
    /\ ft_pc = "sleep"
    /\ ft_waited' = ft_waited + RETRY_DELAY
    /\ IF attempt < MAX_RETRY_ATTEMPTS
       THEN /\ exchange_async' = "closed"
            /\ cl_open' = cl_open \ {Client("fetch_ohlcv_async", attempt)}
            /\ attempt' = attempt + 1
            /\ ft_pc' = "attempt"
            /\ UNCHANGED <<cl_pc, cl_uses, ft_holds, ft_others, ft_log, ft_ret>>
       ELSE \* the range of line 15 is used up: line 49
            /\ FetchLeave("absent")
            /\ UNCHANGED <<cl_pc, cl_uses, attempt, ft_others, ft_log>>

\* The task is cancelled while it waits for the semaphore, for the request
\* or in the sleep: CancelledError is not an Exception, so only the finally
\* block and the exit of the async with block run.
FetchCancel ==
    /\ ft_pc \in {"called", "request", "sleep"}
    /\ FetchLeave("cancelled")
    /\ UNCHANGED <<cl_pc, cl_uses, attempt, ft_others, ft_log, ft_waited>>

\* data_collector.py lines 53-62: fetch_orderbook_async (main.py line 297,
\* reached when a frame came back) creates its client and awaits the book.
BookCreate ==
    /\ cl_pc = "ohlcv" /\ ft_pc = "returned" /\ ft_ret = "frame"
    /\ cl_open' = cl_open \cup {Client("fetch_orderbook_async", 0)}
    /\ cl_pc' = "book_request"
    /\ UNCHANGED <<cl_uses, ftVars>>

\* Lines 63-76: the book, a timeout or an error; the finally block closes
\* the client on each of them.
BookFinish ==
    /\ cl_pc = "book_request"
    /\ cl_open' = cl_open \ {Client("fetch_orderbook_async", 0)}
    /\ cl_pc' = "analysis"
    /\ UNCHANGED <<cl_uses, ftVars>>

\* signal_analyzer.py line 232, utils.py lines 24 and 39: check_liquidity
\* sends two requests through the client of the cycle.
LiquidityRequests ==
    /\ cl_pc = "analysis"
    /\ exchange_sync \in cl_open
    /\ cl_uses' = cl_uses + 2
    /\ cl_pc' = "analysed"
    /\ UNCHANGED <<cl_open, ftVars>>

\* main.py lines 90-98, 150-152, 232-245: run_triad_scan_async returns, after
\* the analysis or because the fetch gave nothing. No line of it closes the
\* client it created.
CycleReturn ==
    /\ \/ cl_pc = "analysed"
       \/ cl_pc = "ohlcv" /\ ft_pc = "returned" /\ ft_ret # "frame"
    /\ cl_pc' = "returned"
    /\ UNCHANGED <<cl_open, cl_uses, ftVars>>

(***************************************************************************)
(* signal_analyzer.analyze_btc_data with its cache (lines 17-181)          *)
(* The cache object is a record of its two fields; data holds a context or *)
(* NoSignal for Python's None, timestamp a clock tick or None.             *)
(***************************************************************************)
EmptyCache == [data |-> NoSignal, timestamp |-> None]

\* cache.py lines 10-17: <<the value returned, the object afterwards>>.
cache_get_keep(c, t) ==
    IF c.data = NoSignal \/ c.timestamp = None THEN <<NoSignal, c>>
    ELSE IF t - c.timestamp > TtlTicks THEN <<NoSignal, c>>
    ELSE <<c.data, c>>

cache_get(c, t) ==
    IF c.data = NoSignal \/ c.timestamp = None THEN <<NoSignal, c>>
    ELSE IF t - c.timestamp > TtlTicks THEN <<NoSignal, EmptyCache>>
    ELSE <<c.data, c>>

\* cache.py lines 19-21.
cache_set(c, d, t) == [data |-> d, timestamp |-> t]

\* What lines 26-172 make of the frames: a context, nothing because no
\* timeframe produced indicators (line 39), or an exception (line 176).
fresh_context(dfs) ==
    IF dfs.kind = "frames"
    THEN analyze_btc_data(dfs.raws, dfs.trend, "none", "none", dfs.close_len)
    ELSE NoSignal

\* analyze_btc_data(dfs, btc_cache_instance) called at time t:
\* <<the value returned, the cache afterwards>>.
analyze_btc_data_cached(dfs, c, t) ==
    LET got == cache_get(c, t)
        result_data == fresh_context(dfs)
    IN  IF got[1] # NoSignal THEN got                          \* lines 21-24
        ELSE IF result_data = NoSignal THEN <<NoSignal, got[2]>>   \* lines 39-41, 176-181
        ELSE <<result_data, cache_set(got[2], result_data, t)>>    \* lines 173-175

\* The frames handed in, and contexts of an earlier analysis.
BtcDfs ==
    {[kind |-> "frames", raws |-> [tf \in present |-> IF tf = main_tf(present) THEN mf ELSE o],
      trend |-> trend, close_len |-> 250] :
        present \in BtcPresent, mf \in BtcMainFrames, o \in {RawFrame(0, 50, 0, <<50, 50>>, 0)},
        trend \in {"up", "down"}}
    \cup {[kind |-> "no_indicators"], [kind |-> "error"]}
EarlierContexts ==
    {analyze_btc_data([tf \in TfNames |-> o], "neutral", "none", "none", 250) :
        o \in BtcOtherFrames}

BcIdle ==
    /\ bc_pc = "idle" /\ bc_cache = EmptyCache /\ bc_now = 0
    /\ bc_dfs = [kind |-> "none"] /\ bc_entry = EmptyCache /\ bc_ret = NoSignal

\* The cache is empty, or holds a context set at time 0; the call is made at
\* any time up to MaxTime, before or after the TTL has run out.
InitBtcCacheArgs ==
    /\ bc_pc = "called"
    /\ bc_cache \in {EmptyCache} \cup {cache_set(EmptyCache, d, 0) : d \in EarlierContexts}
    /\ bc_now \in 0..MaxTime
    /\ bc_dfs \in BtcDfs
    /\ bc_entry = bc_cache
    /\ bc_ret = NoSignal

AnalyzeBtcDataCached ==
    /\ bc_pc = "called"
    /\ LET out == analyze_btc_data_cached(bc_dfs, bc_cache, bc_now)
       IN  bc_ret' = out[1] /\ bc_cache' = out[2]
    /\ bc_pc' = "returned"
    /\ UNCHANGED <<bc_now, bc_dfs, bc_entry>>

(***************************************************************************)
(* main: signal_handler and the loop of lines 340-378                      *)
(* The cycle (run_triad_scan_async) is followed through its awaits and its *)
(* tests of the stop flag. ml_now is the time since the cycle created its  *)
(* cache; the cache is compared with no time of an earlier cycle.          *)
(***************************************************************************)
\* The iterations of the wait between cycles (range(600) in line 369) and
\* the cycles counted.
WaitSeconds == 3
MaxCycles == 2

MlIdle ==
    /\ ml_pc = "idle" /\ ml_running = TRUE /\ ml_cycles = 0 /\ ml_left = 0
    /\ ml_cache = EmptyCache /\ ml_now = 0 /\ ml_writes = 0 /\ ml_workers = FALSE
    /\ ml_hits = 0 /\ ml_late_writes = 0

\* Line 30 and lines 325-326: running is True and the handler is installed
\* when the loop is reached.
MainInit ==
    /\ ml_pc = "while" /\ ml_running = TRUE /\ ml_cycles = 0 /\ ml_left = 0
    /\ ml_cache = EmptyCache /\ ml_now = 0 /\ ml_writes = 0 /\ ml_workers = FALSE
    /\ ml_hits = 0 /\ ml_late_writes = 0

\* Lines 32-36: SIGINT or SIGTERM arrives, at any point of the loop.
MainSignalHandler ==
    /\ ml_pc # "stopped"
    /\ ml_running' = FALSE
    /\ UNCHANGED <<ml_pc, ml_cycles, ml_left, ml_cache, ml_now, ml_writes, ml_workers,
                   ml_hits, ml_late_writes>>

\* Line 341: while running; line 378 after the loop.
MainLoopTest ==
    /\ ml_pc = "while"
    /\ ml_pc' = (IF ml_running THEN "enter" ELSE "stopped")
    /\ UNCHANGED <<ml_running, ml_cycles, ml_left, ml_cache, ml_now, ml_writes,
                   ml_workers, ml_hits, ml_late_writes>>

\* Lines 344 and 43-52: asyncio.run(run_triad_scan_async()). The coroutine
\* returns at once when the flag is down; else the cycle begins: it creates
\* its semaphore and its cache and awaits the BTC fetches.
CycleEnter ==
    /\ ml_pc = "enter"
    /\ IF ~ml_running
       THEN /\ ml_pc' = "after"
            /\ UNCHANGED <<ml_cycles, ml_cache, ml_now, ml_writes, ml_workers>>
       ELSE /\ ml_pc' = "btc_fetch"
            /\ ml_cycles' = (IF ml_cycles < MaxCycles THEN ml_cycles + 1 ELSE ml_cycles)
            /\ ml_cache' = EmptyCache
            /\ ml_now' = 0
            /\ ml_writes' = 0
            /\ ml_workers' = FALSE
    /\ UNCHANGED <<ml_running, ml_left, ml_hits, ml_late_writes>>

\* Lines 86-116: the BTC fetches return or the wait_for of 300 s times out;
\* with a frame, and the flag up at line 100, the cycle goes on.
BtcFetchReturns(outcome, elapsed) ==
    /\ ml_pc = "btc_fetch"
    /\ ml_now' = (IF ml_now + elapsed <= MaxTime THEN ml_now + elapsed ELSE MaxTime)
    /\ ml_pc' = (IF outcome = "frames" /\ ml_running THEN "btc_analyze" ELSE "after")
    /\ UNCHANGED <<ml_running, ml_cycles, ml_left, ml_cache, ml_writes, ml_workers,
                   ml_hits, ml_late_writes>>

\* Lines 119-126: the one call of analyze_btc_data of the cycle, on the
\* cache of the cycle.
CycleDfs ==
    {[kind |-> "frames", raws |-> [tf \in TfNames |-> RawFrame(z, 50, 5, <<50, 50>>, 0)],
      trend |-> "up", close_len |-> 250] : z \in {-25, 0}}
    \cup {[kind |-> "no_indicators"]}

BtcAnalysis(dfs) ==
    /\ ml_pc = "btc_analyze"
    /\ LET got == cache_get(ml_cache, ml_now)
           out == analyze_btc_data_cached(dfs, ml_cache, ml_now)
           from_cache == got[1] # NoSignal
           written == IF out[2] # got[2] THEN 1 ELSE 0
       IN  /\ ml_cache' = out[2]
           /\ ml_hits' = (IF from_cache THEN 1 ELSE ml_hits)
           /\ ml_writes' = ml_writes + written
           /\ ml_late_writes' = (IF ml_workers THEN ml_late_writes + written
                                 ELSE ml_late_writes)
           /\ ml_pc' = (IF out[1] = NoSignal THEN "after" ELSE "alt_create")
    /\ UNCHANGED <<ml_running, ml_cycles, ml_left, ml_now, ml_workers>>

\* Lines 140-143: the altcoin tasks are created unless the flag is down.
AltCreate ==
    /\ ml_pc = "alt_create"
    /\ IF ml_running
       THEN ml_workers' = TRUE /\ ml_pc' = "alt_gather"
       ELSE ml_pc' = "after" /\ UNCHANGED ml_workers
    /\ UNCHANGED <<ml_running, ml_cycles, ml_left, ml_cache, ml_now, ml_writes,
                   ml_hits, ml_late_writes>>

\* Lines 146-245: the tasks return or the wait_for of 300 s times out; the
\* results are processed and saved, or the cycle returns None. The tasks
\* read the context they were given and never the cache.
AltGatherReturns(elapsed) ==
    /\ ml_pc = "alt_gather"
    /\ ml_now' = (IF ml_now + elapsed <= MaxTime THEN ml_now + elapsed ELSE MaxTime)
    /\ ml_pc' = "after"
    /\ UNCHANGED <<ml_running, ml_cycles, ml_left, ml_cache, ml_writes, ml_workers,
                   ml_hits, ml_late_writes>>

\* Lines 346-368: the value of the cycle or its exception is logged; line
\* 361 leaves the loop when the flag is down, else the wait begins.
AfterCycle ==
    /\ ml_pc = "after"
    /\ IF ~ml_running
       THEN ml_pc' = "stopped" /\ UNCHANGED ml_left
       ELSE ml_pc' = "wait" /\ ml_left' = WaitSeconds
    /\ UNCHANGED <<ml_running, ml_cycles, ml_cache, ml_now, ml_writes, ml_workers,
                   ml_hits, ml_late_writes>>

wait_over_at_end(left, flag) == left = 0

\* Lines 369-371: whether the wait is over at a check.
wait_over(left, flag) == left = 0 \/ ~flag

\* Lines 369-372: one check of the wait loop.
WaitCheck ==
    /\ ml_pc = "wait"
    /\ ml_pc' = (IF wait_over(ml_left, ml_running) THEN "while" ELSE "sleep")
    /\ UNCHANGED <<ml_running, ml_cycles, ml_left, ml_cache, ml_now, ml_writes,
                   ml_workers, ml_hits, ml_late_writes>>

\* Line 372: time.sleep(1) returns.
SleepReturns ==
    /\ ml_pc = "sleep"
    /\ ml_left' = ml_left - 1
    /\ ml_pc' = "wait"
    /\ UNCHANGED <<ml_running, ml_cycles, ml_cache, ml_now, ml_writes, ml_workers,
                   ml_hits, ml_late_writes>>

(***************************************************************************)
(* signal_analyzer.analyze_altcoin_data and its orderbook argument         *)
(* (main.py lines 295-307: the task fetches an order book, replaces a      *)
(* failed fetch by {}, and passes it on).                                  *)
(***************************************************************************)
\* What the task passes: {} or a book, given by what analyze_orderbook_density
\* would find in it.
WorkerBook(present, density, bid_near, ask_near) ==
    [present |-> present, density_score |-> density, bid_near |-> bid_near,
     ask_near |-> ask_near]
WorkerBooks ==
    {WorkerBook(FALSE, 0, FALSE, FALSE), WorkerBook(TRUE, 50, TRUE, FALSE),
     WorkerBook(TRUE, 50, FALSE, TRUE)}

\* A function that falls back on the book passed in when check_liquidity
\* brought no analysis.
analyze_altcoin_data_fallback(a, orderbook) ==
    IF check_liquidity(a.exchange)[2].present \/ ~orderbook.present
    THEN analyze_altcoin_data(a)
    ELSE analyze_altcoin_data(
            [a EXCEPT !.exchange = Exchange(a.exchange.ticker_ok, a.exchange.spread,
                                            a.exchange.volume_24h, TRUE, 10,
                                            orderbook.density_score, orderbook.bid_near,
                                            orderbook.ask_near)])

\* analyze_altcoin_data(alt_symbol, dfs, orderbook, btc_context,
\* exchange_sync), line 184: the body (lines 185-476) never reads orderbook;
\* the analysis it uses is the one of check_liquidity (lines 236-243, 351).
analyze_altcoin_data_call(a, orderbook) == analyze_altcoin_data(a)

NiIdle == alt_books = <<>> /\ alt_signal2 = NoSignal

InitTwoCalls ==
    /\ alt_pc = "called"
    /\ \E z \in {-25, 0, 25}, rsi \in {25, 50, 75}, macd \in {-20, 20}, trend \in Trends,
          ex \in ExchangeAnswers :
          alt_args = [z |-> z, rsi |-> rsi, macd_hist |-> macd, stoch_k |-> 50,
                      vol_z |-> 0, atr_pct |-> 20, price |-> 100, trend |-> trend,
                      rsi_div |-> "none", macd_div |-> "none", btc_score |-> 1,
                      btc_corr |-> [present |-> FALSE], exchange |-> ex]
    /\ alt_books \in WorkerBooks \X WorkerBooks
    /\ alt_signal = NoSignal /\ alt_signal2 = NoSignal
    /\ alt_requests = <<>>

AnalyzeTwice ==
    /\ alt_pc = "called"
    /\ alt_signal' = analyze_altcoin_data_call(alt_args, alt_books[1])
    /\ alt_signal2' = analyze_altcoin_data_call(alt_args, alt_books[2])
    /\ alt_requests' = check_liquidity_requests(alt_args.exchange)
    /\ alt_pc' = "returned"
    /\ UNCHANGED <<alt_args, alt_books>>

IoIdle == ClIdle /\ FtIdle /\ BcIdle /\ MlIdle /\ NiIdle
FnIdle == TrIdle /\ IndIdle /\ NtIdle /\ IoIdle

(* Specifications                                                          *)
(***************************************************************************)
InitConsensus == InitConsensusArgs /\ CacheInit /\ RgIdle /\ CbInit /\ AltIdle /\ CyIdle /\ FnIdle
NextConsensus ==
    CallGetConsensusSignal /\ UNCHANGED <<cacheVars, rgVars, cbVars, altVars, cyVars, wVars, fnVars>>
SpecConsensus == InitConsensus /\ [][NextConsensus]_vars

InitCache == CacheInit /\ CsIdle /\ RgIdle /\ CbInit /\ AltIdle /\ CyIdle /\ FnIdle
NextCache ==
    \/ BTCCache_get /\ UNCHANGED <<csVars, rgVars, cbVars, altVars, cyVars, wVars, fnVars>>
    \/ CacheSet /\ UNCHANGED <<csVars, rgVars, cbVars, altVars, cyVars, wVars, fnVars>>
    \/ Tick /\ UNCHANGED <<csVars, rgVars, cbVars, altVars, cyVars, wVars, fnVars>>
SpecCache == InitCache /\ [][NextCache]_vars

InitRegime == InitRegimeArgs /\ CsIdle /\ CacheInit /\ CbInit /\ AltIdle /\ CyIdle /\ FnIdle
NextRegime == CallGetMarketRegime /\ UNCHANGED <<csVars, cacheVars, cbVars, altVars, cyVars, wVars, fnVars>>
SpecRegime == InitRegime /\ [][NextRegime]_vars

InitCombine == CbInit /\ CsIdle /\ CacheInit /\ RgIdle /\ AltIdle /\ CyIdle /\ FnIdle
NextCombine ==
    \/ AnalyzeBtcData /\ UNCHANGED <<csVars, cacheVars, rgVars, altVars, cyVars, wVars, fnVars>>
    \/ CombineSignals /\ UNCHANGED <<csVars, cacheVars, rgVars, altVars, cyVars, wVars, fnVars>>
SpecCombine == InitCombine /\ [][NextCombine]_vars

InitAlt == InitAltArgs /\ CsIdle /\ CacheInit /\ RgIdle /\ CbInit /\ CyIdle /\ FnIdle
NextAlt == AnalyzeAltcoinData /\ UNCHANGED <<csVars, cacheVars, rgVars, cbVars, cyVars, wVars, fnVars>>
SpecAlt == InitAlt /\ [][NextAlt]_vars

otherVars == <<csVars, cacheVars, rgVars, cbVars, altVars, fnVars>>
InitCycle == CycleInit /\ CsIdle /\ CacheInit /\ RgIdle /\ CbInit /\ AltIdle /\ FnIdle
NextCycle ==
    \/ SignalHandler /\ UNCHANGED otherVars
    \/ CycleStart /\ UNCHANGED otherVars
    \/ BtcFetchBatch /\ UNCHANGED otherVars
    \/ BtcProcess /\ UNCHANGED otherVars
    \/ BtcAnalyze /\ UNCHANGED otherVars
    \/ CreateTask /\ UNCHANGED otherVars
    \/ (\E w \in Workers : TaskStart(w)) /\ UNCHANGED otherVars
    \/ (\E w \in Workers, tf \in TfSet : FetchAcquire(w, tf)) /\ UNCHANGED otherVars
    \/ (\E w \in Workers, tf \in TfSet : FetchDone(w, tf)) /\ UNCHANGED otherVars
    \/ (\E w \in Workers : TaskProcess(w)) /\ UNCHANGED otherVars
    \/ (\E w \in Workers : TaskAnalyze(w)) /\ UNCHANGED otherVars
    \/ ClockTick /\ UNCHANGED otherVars
    \/ CycleTimerFires /\ UNCHANGED otherVars
    \/ (\E w \in Workers : TaskTimerFires(w)) /\ UNCHANGED otherVars
    \/ GatherDone /\ UNCHANGED otherVars
    \/ ProcessResult /\ UNCHANGED otherVars
    \/ SaveResults /\ UNCHANGED otherVars
SpecCycle == InitCycle /\ [][NextCycle]_vars

CoreIdle == CsIdle /\ CacheInit /\ RgIdle /\ CbInit /\ AltIdle /\ CyIdle

InitTrend == InitTrendArgs /\ CoreIdle /\ IndIdle /\ NtIdle /\ IoIdle
NextTrend == CalculateTrend /\ UNCHANGED <<coreVars, indVars, ntVars, ioVars>>
SpecTrend == InitTrend /\ [][NextTrend]_vars

InitIndicators == InitIndicatorArgs /\ CoreIdle /\ TrIdle /\ NtIdle /\ IoIdle
NextIndicators == CallIndicator /\ UNCHANGED <<coreVars, trVars, ntVars, ioVars>>
SpecIndicators == InitIndicators /\ [][NextIndicators]_vars

InitNotifier == InitNotifierArgs /\ CoreIdle /\ TrIdle /\ IndIdle /\ IoIdle
NextNotifier == SendTelegramAlertEnhanced /\ UNCHANGED <<coreVars, trVars, indVars, ioVars>>
SpecNotifier == InitNotifier /\ [][NextNotifier]_vars

PureIdle == CoreIdle /\ TrIdle /\ IndIdle /\ NtIdle /\ NiIdle
pureVars == <<coreVars, trVars, indVars, ntVars, niVars>>

InitTwo ==
    /\ InitTwoCalls /\ CsIdle /\ CacheInit /\ RgIdle /\ CbInit /\ CyIdle
    /\ TrIdle /\ IndIdle /\ NtIdle /\ ClIdle /\ FtIdle /\ BcIdle /\ MlIdle
NextTwo ==
    AnalyzeTwice /\ UNCHANGED <<csVars, cacheVars, rgVars, cbVars, cyVars, wVars, trVars,
                                indVars, ntVars, clVars, ftVars, bcVars, mlVars>>
SpecTwoCalls == InitTwo /\ [][NextTwo]_vars

InitBtcCache == InitBtcCacheArgs /\ PureIdle /\ ClIdle /\ FtIdle /\ MlIdle
NextBtcCache == AnalyzeBtcDataCached /\ UNCHANGED <<pureVars, clVars, ftVars, mlVars>>
SpecBtcCache == InitBtcCache /\ [][NextBtcCache]_vars

fetchRest == <<pureVars, bcVars, mlVars>>
InitFetch == FetchInit /\ PureIdle /\ BcIdle /\ MlIdle
NextFetch ==
    \/ CreateExchangeSync /\ UNCHANGED fetchRest
    \/ TopCreate /\ UNCHANGED fetchRest
    \/ TopFinish /\ UNCHANGED fetchRest
    \/ OtherAcquire /\ UNCHANGED fetchRest
    \/ OtherRelease /\ UNCHANGED fetchRest
    \/ FetchEnter /\ UNCHANGED fetchRest
    \/ FetchAttempt /\ UNCHANGED fetchRest
    \/ (\E outcome \in RequestOutcomes : FetchAnswer(outcome)) /\ UNCHANGED fetchRest
    \/ FetchWake /\ UNCHANGED fetchRest
    \/ FetchCancel /\ UNCHANGED fetchRest
    \/ BookCreate /\ UNCHANGED fetchRest
    \/ BookFinish /\ UNCHANGED fetchRest
    \/ LiquidityRequests /\ UNCHANGED fetchRest
    \/ CycleReturn /\ UNCHANGED fetchRest
SpecFetch == InitFetch /\ [][NextFetch]_vars

\* The event loop runs a task that is ready, a request is answered or ends
\* with the client's request timeout, and a sleep ends.
FetchSteps ==
    (FetchAttempt \/ (\E outcome \in RequestOutcomes : FetchAnswer(outcome)) \/ FetchWake)
       /\ UNCHANGED fetchRest
SpecFetchLive == SpecFetch /\ WF_vars(FetchSteps)

\* main.analyze_altcoin_task, lines 305-311: analyze_altcoin_data, then
\* combine_signals on the BTC context of the cycle and the altcoin signal.
\* The close series of a context or a signal is given by its length, None
\* when the series is absent (lines 149 and 460 store None when the main
\* frame has no close column).
SeriesLens == CloseLens \cup {None}
PipelineContexts ==
    {analyze_btc_data([tf \in TfNames |-> mf], trend, "none", "none", cl) :
        mf \in BtcOtherFrames, trend \in Trends, cl \in {None, 250}}

\* What pearsonr does on the two windows: a coefficient (in hundredths), NaN
\* (a constant window), or an exception.
PearsonOutcomes ==
    {[kind |-> "value", r |-> p] : p \in Pearsons} \cup {[kind |-> "nan"], [kind |-> "raises"]}

\* feature_calculator.py lines 161-167: NaN and any exception give 0.0. The
\* len() of an absent series raises too, and calculate_correlation gives 0
\* for the length None as for a short one.
pearson_or_zero(o) == IF o.kind = "value" THEN o.r ELSE 0

InitPipelineArgs ==
    /\ alt_pc = "called" /\ cb_pc = "btc"
    /\ btc_signal \in PipelineContexts
    /\ \E z \in {-25, 0, 25}, rsi \in {25, 50, 75}, macd \in {-20, 20}, atr \in {0, 20},
          trend \in Trends, ex \in {Exchange(TRUE, 10, 500, TRUE, 10, 0, FALSE, FALSE),
                                    Exchange(TRUE, 10, 5, FALSE, 0, 0, FALSE, FALSE)} :
          alt_args = [z |-> z, rsi |-> rsi, macd_hist |-> macd, stoch_k |-> 50,
                      vol_z |-> 0, atr_pct |-> atr, price |-> 100, trend |-> trend,
                      rsi_div |-> "none", macd_div |-> "none",
                      btc_score |-> btc_signal.score,
                      btc_corr |-> [present |-> FALSE], exchange |-> ex]
    /\ alt_signal = NoSignal /\ alt_requests = <<>>
    /\ cb_alt = NoSignal /\ combined = NoSignal

PipelineCombine ==
    /\ alt_pc = "returned" /\ cb_pc = "btc"
    /\ \E cl \in SeriesLens, o \in PearsonOutcomes :
          LET alt == [absent |-> FALSE, score |-> alt_signal.score, rr |-> alt_signal.rr,
                      close_len |-> cl, pearsonr |-> o]
          IN  /\ cb_alt' = alt
              /\ combined' = combine_signals(btc_signal, alt, pearson_or_zero(o))
    /\ cb_pc' = "combined"
    /\ UNCHANGED btc_signal

InitPipeline == InitPipelineArgs /\ CsIdle /\ CacheInit /\ RgIdle /\ CyIdle /\ FnIdle
NextPipeline ==
    \/ AnalyzeAltcoinData /\ UNCHANGED <<csVars, cacheVars, rgVars, cbVars, cyVars, wVars, fnVars>>
    \/ PipelineCombine /\ UNCHANGED <<csVars, cacheVars, rgVars, altVars, cyVars, wVars, fnVars>>
SpecPipeline == InitPipeline /\ [][NextPipeline]_vars

mainRest == <<pureVars, clVars, ftVars, bcVars>>
InitMain == MainInit /\ PureIdle /\ ClIdle /\ FtIdle /\ BcIdle
MainSteps ==
    \/ MainLoopTest /\ UNCHANGED mainRest
    \/ CycleEnter /\ UNCHANGED mainRest
    \/ (\E outcome \in {"frames", "nothing", "timeout"}, elapsed \in 0..1 :
           BtcFetchReturns(outcome, elapsed)) /\ UNCHANGED mainRest
    \/ (\E dfs \in CycleDfs : BtcAnalysis(dfs)) /\ UNCHANGED mainRest
    \/ AltCreate /\ UNCHANGED mainRest
    \/ (\E elapsed \in 0..1 : AltGatherReturns(elapsed)) /\ UNCHANGED mainRest
    \/ AfterCycle /\ UNCHANGED mainRest
    \/ WaitCheck /\ UNCHANGED mainRest
    \/ SleepReturns /\ UNCHANGED mainRest
NextMain ==
    \/ MainSignalHandler /\ UNCHANGED mainRest
    \/ MainSteps
SpecMain == InitMain /\ [][NextMain]_vars

\* The interpreter runs the main thread, every fetch in flight returns or
\* is ended by the wait_for around it, and time.sleep(1) returns.
SpecMainLive == SpecMain /\ WF_vars(MainSteps)

(***************************************************************************)
(* Claims                                                                  *)
(***************************************************************************)
\* The votes of a mapping as the claims describe the three encodings: the sign
\* of a number, buy/oversold and sell/overbought, and the raw value.
C1_Agree(label) ==
    Cardinality({tf \in DOMAIN values_dict :
        LET v == values_dict[tf] IN
        CASE signal_type = "binary" ->
                 (label = "buy" /\ v > 0) \/ (label = "sell" /\ v < 0)
          [] signal_type = "ternary" ->
                 (label = "buy" /\ v \in {"buy", "oversold"})
                 \/ (label = "sell" /\ v \in {"sell", "overbought"})
          [] OTHER -> v = label})

\* C1 as stated: fewer than threshold votes for buy and for sell give ('HOLD', 0);
\* at least threshold votes for a direction give that direction with its exact
\* count, for either direction; an empty mapping gives ('HOLD', 0).
C1_AsStated ==
    cs_pc = "returned" =>
        /\ (C1_Agree("buy") < threshold /\ C1_Agree("sell") < threshold
                => cs_result = <<"HOLD", 0>>)
        /\ (C1_Agree("buy") >= threshold => cs_result = <<"BUY", C1_Agree("buy")>>)
        /\ (C1_Agree("sell") >= threshold => cs_result = <<"SELL", C1_Agree("sell")>>)
        /\ (DOMAIN values_dict = {} => cs_result = <<"HOLD", 0>>)

\* C1 amended: as C1, except that when both directions reach the threshold the
\* result is BUY with the buy count; SELL with the sell count is returned only
\* when the buy votes stay below the threshold.
C1_ConsensusRule ==
    cs_pc = "returned" =>
        /\ (C1_Agree("buy") < threshold /\ C1_Agree("sell") < threshold
                => cs_result = <<"HOLD", 0>>)
        /\ (C1_Agree("buy") >= threshold => cs_result = <<"BUY", C1_Agree("buy")>>)
        /\ (C1_Agree("sell") >= threshold /\ C1_Agree("buy") < threshold
                => cs_result = <<"SELL", C1_Agree("sell")>>)
        /\ (DOMAIN values_dict = {} => cs_result = <<"HOLD", 0>>)

\* Both directions reached the threshold and the call returned BUY.
C1_Witness ==
    /\ cs_pc = "returned"
    /\ C1_Agree("buy") >= threshold /\ C1_Agree("sell") >= threshold
    /\ cs_result[1] = "BUY"

\* C10: a get() returns the value of the last set() exactly while
\* now - (time of that set) <= ttl, and absent otherwise (never set, or expired);
\* a get() that returns absent leaves data and timestamp both cleared; a set()
\* stores its argument with the current time; the slot is never half filled.
C10_CacheContract ==
    /\ (cache_pc = "get" =>
            last_get = (IF last_set = None \/ now - set_time > TtlTicks
                        THEN None ELSE last_set))
    /\ (cache_pc = "get" /\ last_get = None => data = None /\ timestamp = None)
    /\ (cache_pc = "set" => data = last_set /\ timestamp = now)
    /\ ((data = None) <=> (timestamp = None))

\* A get() made after the TTL of an earlier set() ran out returned absent.
C10_Witness ==
    /\ cache_pc = "get" /\ last_set # None /\ now - set_time > TtlTicks
    /\ last_get = None /\ data = None

\* The rules of C7 in the claim's own terms (real values: Z and volume Z in
\* tenths, RSI in points).
C7_Rule(name) ==
    LET a == rg_args IN
    CASE name = "range"        -> Abs(a.z) < 10 /\ a.rsi > 40 /\ a.rsi < 60
      [] name = "oversold"     -> a.z < -20 /\ a.rsi < 30 /\ a.trend = "up"
      [] name = "overbought"   -> a.z > 20 /\ a.rsi > 70 /\ a.trend = "down"
      [] name = "accumulation" -> a.z < -10 /\ a.volz > 10
      [] name = "distribution" -> a.z > 10 /\ a.volz < -10
      [] OTHER                 -> TRUE
C7_Order == <<"range", "oversold", "overbought", "accumulation", "distribution", "trending">>

\* C7: the regime returned is the first rule of the priority order that matches
\* (trending when none does), so exactly one of the six regimes is returned for
\* every argument tuple, and the volatility bucket is a function of ATR% alone.
C7_RegimeTotalAndOrdered ==
    rg_pc = "returned" =>
        /\ \E i \in 1..6 :
              /\ rg_result[1] = C7_Order[i]
              /\ C7_Rule(C7_Order[i])
              /\ \A j \in 1..(i - 1) : ~C7_Rule(C7_Order[j])
        /\ rg_result[2] = (IF rg_args.atr < 15 THEN "low"
                           ELSE IF rg_args.atr < 30 THEN "medium" ELSE "high")

\* The oversold rule won over the accumulation rule, which matched as well.
C7_Witness ==
    /\ rg_pc = "returned" /\ rg_result[1] = "oversold"
    /\ C7_Rule("accumulation") /\ rg_result[2] = "medium"

\* The weighted blend of both scores with the weights the call returned.
CbBlend == btc_signal.score * combined.btc_weight * 10
           + cb_alt.score * combined.alt_weight * 10

\* C2 as stated: the score before the gate is altScore x 1.3 exactly when the
\* pair is divergent, altScore > 4 and (|BTC score| <= 2 or the BTC confidence
\* used is not high); otherwise it is the weighted blend.
C2_AsStated ==
    cb_pc = "combined" =>
        combined.pre_gate =
            (IF /\ combined.is_divergent
                /\ cb_alt.score > 4
                /\ (Abs(btc_signal.score) <= 2 \/ combined.btc_confidence_used # "high")
             THEN cb_alt.score * 1300
             ELSE CbBlend)

\* The label C3 assigns to a returned score and a reward/risk ratio.
C3_Label(score, rr) ==
    IF score > 5000 /\ rr >= 120 THEN "STRONG_LONG"
    ELSE IF score > 5000 /\ rr >= 80 THEN "WEAK_LONG"
    ELSE IF score < -5000 /\ rr >= 120 THEN "STRONG_SHORT"
    ELSE IF score < -5000 /\ rr >= 80 THEN "WEAK_SHORT"
    ELSE IF Abs(score) > 3000 /\ rr >= 100
    THEN (IF score > 0 THEN "WEAK_LONG" ELSE "WEAK_SHORT")
    ELSE "HOLD"

\* C3 as stated: the final label is the one the returned score (after the gate)
\* and the altcoin reward/risk ratio determine by the thresholds 5 / -5 with
\* rr >= 1.2 or >= 0.8, then |score| > 3 with rr >= 1.0, else HOLD.
C3_AsStated ==
    cb_pc = "combined" => combined.final_signal = C3_Label(combined.score, cb_alt.rr)

\* C4: rr < 0.5 returns score 0 and HOLD; rr > 1.5 returns the score before the
\* gate times 1.1; 0.5 <= rr <= 1.5 returns the score before the gate.
C4_RewardRiskGate ==
    cb_pc = "combined" =>
        /\ (cb_alt.rr < 50 => combined.score = 0 /\ combined.final_signal = "HOLD")
        /\ (cb_alt.rr > 150 => 10 * combined.score = 11 * combined.pre_gate)
        /\ (cb_alt.rr >= 50 /\ cb_alt.rr <= 150 => combined.score = combined.pre_gate)

\* A short signal strong enough to fire (below -5 before the gate) was
\* suppressed to score 0 and HOLD by rr < 0.5.
C4_Witness ==
    /\ cb_pc = "combined" /\ cb_alt.rr < 50 /\ combined.pre_gate < -5000
    /\ combined.score = 0 /\ combined.final_signal = "HOLD"

\* The tally of C5: +1 for each BUY label, -1 for each SELL label, over all the
\* consensus indicators of the context.
C5_Tally ==
    LET c == btc_signal.consensus IN
    <<Cardinality({k \in DOMAIN c : c[k].label = "BUY"})
        - Cardinality({k \in DOMAIN c : c[k].label = "SELL"}),
      Cardinality(DOMAIN c)>>

\* C5 as stated: the BTC confidence used is the bucket (high above 0.75, medium
\* above 0.4, else low) of 0.7 x base + 0.3 x (s + 1) / 2, s being the average
\* of the tally of the context's consensus labels.
C5_AsStated ==
    cb_pc = "combined" =>
        combined.btc_confidence_used = bucket_confidence(btc_signal.confidence, C5_Tally)

\* The BTC weight the regime and confidence rules alone give, from what the
\* call returned: 0.5 for range or neutral, else 0.7, halved for low confidence.
C6_RuleWeight ==
    LET base == IF btc_signal.regime = "range" \/ btc_signal.trend = "neutral"
                THEN 50 ELSE 70
    IN  IF combined.btc_confidence_used = "low" THEN base \div 2 ELSE base

\* C6 as stated: alt_weight = 1 - btc_weight; not divergent: btc_weight is the
\* rule weight; divergent: 0.3 / 0.7, and 0.3 is not above the rule weight.
C6_AsStated ==
    cb_pc = "combined" =>
        /\ combined.alt_weight = 100 - combined.btc_weight
        /\ (~combined.is_divergent => combined.btc_weight = C6_RuleWeight)
        /\ (combined.is_divergent =>
                /\ combined.btc_weight = 30 /\ combined.alt_weight = 70
                /\ 30 <= C6_RuleWeight)

\* The distances of C8, scaled like the targets and stops of the model
\* (20000 x percent / 100): d = |Z| x ATR% and r = 1.5 x ATR%.
C8_d == 2 * Abs(alt_args.z) * alt_args.atr_pct
C8_r == 2 * 15 * alt_args.atr_pct
C8_Base == 20000 * alt_args.price

\* C8: the label follows the score by the thresholds 6 / -6 / 4 / -4; a strong
\* signal has target price x (1 +/- d/100) and stop price x (1 -/+ r/100), a
\* weak one half of both distances; HOLD has no target, no stop and confidence
\* low; the reason text lists the last three (strong) or two (weak) triggered
\* rule descriptions in the order they were triggered.
C8_LabelTargetsReasons ==
    alt_pc = "returned" =>
        LET s == alt_signal.score
            sig == alt_signal.signal
            p == alt_args.price
            n == Len(alt_signal.reasons)
            LastOf(k) == [i \in 1..(IF n < k THEN n ELSE k) |->
                             alt_signal.reasons[(IF n < k THEN 0 ELSE n - k) + i]]
        IN  /\ sig = (IF s >= 6 THEN "STRONG LONG"
                      ELSE IF s <= -6 THEN "STRONG SHORT"
                      ELSE IF s >= 4 THEN "WEAK LONG"
                      ELSE IF s <= -4 THEN "WEAK SHORT" ELSE "HOLD")
            /\ (sig = "STRONG LONG" =>
                    /\ alt_signal.target = C8_Base + p * C8_d
                    /\ alt_signal.stop = C8_Base - p * C8_r
                    /\ alt_signal.reason = LastOf(3))
            /\ (sig = "STRONG SHORT" =>
                    /\ alt_signal.target = C8_Base - p * C8_d
                    /\ alt_signal.stop = C8_Base + p * C8_r
                    /\ alt_signal.reason = LastOf(3))
            /\ (sig = "WEAK LONG" =>
                    /\ 2 * (alt_signal.target - C8_Base) = p * C8_d
                    /\ 2 * (C8_Base - alt_signal.stop) = p * C8_r
                    /\ alt_signal.reason = LastOf(2))
            /\ (sig = "WEAK SHORT" =>
                    /\ 2 * (C8_Base - alt_signal.target) = p * C8_d
                    /\ 2 * (alt_signal.stop - C8_Base) = p * C8_r
                    /\ alt_signal.reason = LastOf(2))
            /\ (sig = "HOLD" => ~alt_signal.has_levels /\ alt_signal.confidence = "low")
            /\ (sig # "HOLD" => alt_signal.has_levels)

\* A strong short with more than three triggered rules and a target below and
\* a stop above the price.
C8_Witness ==
    /\ alt_pc = "returned" /\ alt_signal.signal = "STRONG SHORT"
    /\ Len(alt_signal.reasons) > 3 /\ Len(alt_signal.reason) = 3
    /\ alt_signal.target < C8_Base /\ alt_signal.stop > C8_Base

\* The stress of C9: the asset is reported illiquid, or the order-book analysis
\* shows spread > 0.5% or price impact > 1.0%.
C9_Stress ==
    \/ ~alt_signal.is_liquid
    \/ /\ alt_signal.orderbook_analysis.present
       /\ \/ alt_signal.orderbook_analysis.spread_pct > 50
          \/ alt_signal.orderbook_analysis.price_impact > 100

\* The confidence the score gives: high from |score| >= 6, medium from 4.
C9_ScoreConfidence ==
    IF Abs(alt_signal.score) >= 6 THEN "high"
    ELSE IF Abs(alt_signal.score) >= 4 THEN "medium" ELSE "low"

\* C9 as stated: under stress the confidence is the score's confidence lowered
\* by exactly one tier (never two) and the reward/risk ratio is multiplied by
\* 0.8 once; without stress both are unchanged.
C9_AsStated ==
    alt_pc = "returned" =>
        LET raw3 == IF alt_args.atr_pct > 0 THEN 20 * Abs(alt_args.z) ELSE 0
        IN  IF C9_Stress
            THEN /\ alt_signal.confidence =
                        (IF C9_ScoreConfidence = "high" THEN "medium" ELSE "low")
                 /\ alt_signal.rr = Round(8 * raw3, 30)
            ELSE /\ alt_signal.confidence = C9_ScoreConfidence
                 /\ alt_signal.rr = Round(raw3, 3)

\* C11: an altcoin task exists (and so fetches or analyses) only after the BTC
\* analysis of the cycle returned a non-absent context, every task holds that
\* same context, and a cycle without a usable BTC context (every BTC frame
\* failed, the BTC batch timed out, or the analysis returned absent) ends
\* absent with no task started and nothing written.
C11_PhaseOrder ==
    /\ \A w \in Workers :
          w_pc[w] # "none" => ~btc_ctx.absent /\ w_ctx[w] = btc_ctx
    /\ \A w \in Workers :
          w_pc[w] = "none" => /\ w_fetch[w] = [tf \in TfSet |-> "idle"]
                              /\ w_ob[w] = "idle" /\ w_result[w] = "none"
    /\ (cy_pc = "returned" /\ btc_ctx.absent) =>
          /\ cy_ret = "absent" /\ table = <<>>
          /\ \A w \in Workers : w_pc[w] = "none"
    /\ cy_abort \in {"btc_timeout", "btc_no_data", "btc_no_context"} =>
          cy_pc = "returned" /\ btc_ctx.absent

\* A task is fetching with the context of the cycle, formed from the 4h frame
\* alone, the 1h fetch of BTC having failed.
C11_Witness ==
    /\ cy_pc = "gather" /\ ~btc_ctx.absent /\ btc_ctx.frames = {"4h"}
    /\ \E w \in Workers : w_pc[w] = "fetching" /\ w_ctx[w] = btc_ctx
                          /\ \E tf \in TfSet : w_fetch[w][tf] = "inflight"

\* The candle fetch of altcoin task w has exceeded the timeout of the task's
\* wait_for: the deadline has passed with a fetch of the task unfinished.
C12_FetchTimedOut(w) ==
    /\ w_pc[w] \in {"fetching", "timed_out", "cancelled"}
    /\ w_deadline[w] # NoDeadline /\ clock >= w_deadline[w]
    /\ \E tf \in TfSet : w_fetch[w][tf] \in {"waiting", "inflight", "cancelled"}

\* C12 as stated: when the candle fetch of one altcoin exceeds its timeout the
\* cycle is not aborted, and every other altcoin whose task returned a combined
\* signal has its row in the results of the cycle.
C12_AsStated ==
    \A w \in Workers :
        C12_FetchTimedOut(w) =>
            /\ cy_abort # "alt_timeout"
            /\ cy_pc = "returned" =>
                  \A v \in Workers \ {w} :
                      (w_pc[v] = "done" /\ keeps_result(w_result[v])) =>
                          \E i \in DOMAIN table : table[i].alt = AltList[v]

\* C13 as stated: at every moment of a cycle the number of exchange requests in
\* flight for altcoin tasks (candle fetches and order-book fetches together)
\* is at most MAX_CONCURRENT_REQUESTS.
C13_AsStated == requests_in_flight <= MAX_CONCURRENT_REQUESTS

\* The positions at which the cycle reads the stop flag: its start, each
\* iteration over the BTC results, each iteration that creates an altcoin
\* task, and each iteration over the task results.
C14_CheckPoints == {"start", "btc_process", "create_tasks", "process"}

\* C14: with the flag set, the next step of the cycle at one of its check
\* points returns absent and writes nothing, and a task that takes its first
\* step (it was not cancelled before it ran) returns absent with no fetch issued; a cycle that returned absent
\* wrote no table, and the flag once set stays set.
C14_StopFlag ==
    [][ /\ (/\ ~running /\ cy_pc \in C14_CheckPoints
            /\ <<cy_pc, cy_i>>' # <<cy_pc, cy_i>>)
               => (cy_pc' = "returned" /\ cy_ret' = "absent" /\ table' = <<>>)
        /\ \A w \in Workers :
              (~running /\ w_pc[w] = "created" /\ w_pc'[w] \notin {"created", "cancelled"})
                 => /\ w_pc'[w] = "done" /\ w_result'[w] = "absent"
                    /\ w_fetch'[w] = [tf \in TfSet |-> "idle"]
                    /\ w_ob'[w] = "idle"
        /\ (cy_ret' = "absent" => table' = <<>>)
        /\ (~running => ~running')
      ]_vars

\* The flag was set while the tasks ran: one task had its fetches out and
\* returned a signal, the other returned at its stop check without a fetch,
\* and the cycle returned absent at its check over the results, writing nothing.
C14_Witness ==
    /\ cy_pc = "returned" /\ cy_abort = "stopped" /\ table = <<>>
    /\ \E w, v \in Workers :
          /\ w_stopped[w] /\ w_result[w] = "absent"
          /\ w_fetch[w] = [tf \in TfSet |-> "idle"]
          /\ w_result[v] \in TaskLabels

\* The outcomes of a candle fetch that count as a failure of the timeframe.
C15_Failed == {"short", "absent", "raised"}

C18_Signalled ==
    SelectSeq([i \in 1..Len(AltList) |-> i], LAMBDA i : w_result[i] \in TaskLabels)

\* C18: when the cycle has run to its end, the table holds one row for each
\* altcoin whose worker returned a combined signal (HOLD included), none for
\* a worker that returned absent, and the rows are in the order of the
\* altcoin list.
C18_ResultsTable ==
    (cy_pc = "returned" /\ cy_abort \in {"none", "no_results"})
       => table = [k \in 1..Len(C18_Signalled) |->
                      [alt |-> AltList[C18_Signalled[k]],
                       final_signal |-> w_result[C18_Signalled[k]]]]

\* The worker of the first altcoin returned absent and the worker of the
\* second returned HOLD: the table written holds the one row of the second.
C18_Witness ==
    /\ cy_pc = "returned" /\ cy_ret = "table"
    /\ w_result[1] = "absent"
    /\ table = <<[alt |-> AltList[2], final_signal |-> "HOLD"]>>

\* The trend the claim describes: taken from the first timeframe of the order
\* that is long enough for the EMA cross.
C16_StatedTrend ==
    LET enough == {i \in 1..Len(main_tf_order) : main_tf_long_enough(tr_dfs[main_tf_order[i]])}
    IN  IF enough = {} THEN "neutral"
        ELSE LET df == tr_dfs[main_tf_order[CHOOSE i \in enough : \A k \in enough : i <= k]]
             IN  IF df.cross = "gt" THEN "up"
                 ELSE IF df.cross = "lt" THEN "down" ELSE "neutral"

\* C16 as stated: calculate_trend returns the trend of the first timeframe in
\* the order 4h, 1h, 15m that has sufficient length, so a later timeframe
\* with enough candles is used when an earlier one is present but too short.
C16_AsStated == tr_pc = "returned" => tr_result[1] = C16_StatedTrend

\* C17 as stated: a series shorter than an indicator's minimum length gives
\* the indicator's neutral default, the Z-score over a window of equal values
\* is 0, and calculate_indicators_for_timeframe returns absent for an absent
\* frame or fewer than 10 candles.
C17_AsStated ==
    ind_pc = "returned" =>
       /\ (ind_call.fn = "z" /\ ind_call.n < Z_WINDOW) => ind_result = ZDefault
       /\ (ind_call.fn = "rsi" /\ ind_call.n < Max2(2, RSI_PERIOD)) => ind_result = RsiDefault
       /\ (ind_call.fn = "macd" /\ ind_call.n < Max3(MacdFast, MacdSlow, MacdSignal) + 2)
             => ind_result = MacdDefault
       /\ (ind_call.fn = "stoch" /\ ind_call.n < Max3(RSI_PERIOD, StochSmoothK, StochSmoothD) + 5)
             => ind_result = StochDefault
       /\ (ind_call.fn = "atr" /\ ind_call.n < Max2(ATR_PERIOD, 2)) => ind_result = AtrDefault
       /\ (ind_call.fn = "corr" /\ (ind_call.n < CorrelationWindow \/ ind_call.n2 < CorrelationWindow))
             => ind_result = CorrDefault
       /\ (ind_call.fn = "div" /\ (ind_call.n < DivergencePeriods + 10
                                      \/ ind_call.n2 < DivergencePeriods + 10))
             => (ind_result # Computed /\ ~ind_result.divergent)
       /\ (ind_call.fn = "tf" /\ ind_call.n < MinCandles) => ind_result = NoSignal
       /\ (ind_call.fn = "z" /\ ind_call.n >= Z_WINDOW /\ ind_call.series = "constant")
             => ind_result.z = 0

\* The kinds of the messages posted by the call.
C19_Kinds == {nt_sent[i].kind : i \in 1..Len(nt_sent)}

\* C19: with the notifier enabled a full alert is sent exactly for a
\* confidence of high or medium; for any other confidence an accumulation
\* alert is sent exactly when the altcoin's label is ACCUMULATION; with the
\* notifier disabled nothing is sent; one signal gives at most one message.
C19_Alerts ==
    nt_pc = "returned" =>
       /\ ("full" \in C19_Kinds)
             <=> (nt_enabled /\ nt_signal.confidence \in {"high", "medium"})
       /\ ("accumulation" \in C19_Kinds)
             <=> (nt_enabled /\ nt_signal.confidence \notin {"high", "medium"}
                     /\ nt_signal.alt.signal = "ACCUMULATION")
       /\ (~nt_enabled => nt_sent = <<>>)
       /\ Len(nt_sent) <= 1

\* A low-confidence signal whose altcoin label is ACCUMULATION was handed to
\* the enabled notifier and the accumulation alert, and nothing else, was sent.
C19_Witness ==
    /\ nt_pc = "returned" /\ nt_enabled /\ nt_signal.confidence = "low"
    /\ nt_signal.alt.signal = "ACCUMULATION"
    /\ nt_sent = <<[kind |-> "accumulation"]>>

\* C20 as stated: between the call and the return of analyze_altcoin_data no
\* request is made to the exchange.
C20_AsStated == alt_pc = "returned" => alt_requests = <<>>

\* C21: in every result of combine_signals a label other than HOLD has the
\* confidence high when the absolute value of the returned score is above 7
\* and medium otherwise, and HOLD has the confidence low; so the confidence
\* is low exactly when the label is HOLD.
C21_Confidence ==
    (cb_pc = "combined" /\ ~combined.absent) =>
       /\ (combined.final_signal # "HOLD")
             => combined.confidence =
                   (IF Abs(combined.score) > 7000 THEN "high" ELSE "medium")
       /\ (combined.final_signal = "HOLD") => combined.confidence = "low"
       /\ (combined.confidence = "low") <=> (combined.final_signal = "HOLD")

\* A weak label given by the third branch (the score before the gate was not
\* beyond 5, the returned score is beyond 3): its confidence is medium.
C21_Witness ==
    /\ cb_pc = "combined" /\ ~combined.absent
    /\ combined.final_signal \in {"WEAK_LONG", "WEAK_SHORT"}
    /\ Abs(combined.pre_gate) <= 5000 /\ Abs(combined.score) > 3000
    /\ combined.confidence = "medium"

\* C22 as stated: over the values calculate_stoch_rsi can return (0 to 1, in
\* hundredths here, the neutral default being 50) the Stochastic RSI term of
\* the altcoin score is +1 only at an oversold extreme (below 0.2), -1 only
\* at an overbought extreme (above 0.8) and 0 in between.
C22_AsStated ==
    alt_pc = "returned" =>
       LET rs == {alt_signal.reasons[i] : i \in 1..Len(alt_signal.reasons)}
       IN  /\ ("StochRSI oversold" \in rs) <=> (alt_args.stoch_k < 20)
           /\ ("StochRSI overbought" \in rs) <=> (alt_args.stoch_k > 80)

\* C23 as stated: every exchange client that a cycle creates is closed before
\* the call that created it returns, so when the cycle has returned no client
\* created in it is still open.
C23_AsStated == cl_pc = "returned" => cl_open = {}

\* C29: fetch_ohlcv_async makes at most MAX_RETRY_ATTEMPTS + 1 attempts and
\* then returns. A failed attempt that is not the last is followed by a wait
\* of RETRY_DELAY and one more attempt, the last failed attempt returns
\* absent, and an empty payload or a payload with missing values returns
\* absent at once. The call holds one permit of the semaphore from before its
\* first attempt until it returns, the waits included, and has released it
\* on every exit, a cancellation included.
C29_State ==
    LET n == Len(ft_log)
        failed(i) == ft_log[i] \in RequestFailures
    IN  /\ n + (IF ft_pc = "request" THEN 1 ELSE 0) <= MAX_RETRY_ATTEMPTS + 1
        /\ ft_holds <=> ft_pc \in {"attempt", "request", "sleep"}
        /\ ft_others + (IF ft_holds THEN 1 ELSE 0) <= MAX_CONCURRENT_REQUESTS
        /\ \A i \in 1..(n - 1) : failed(i)
        /\ ft_pc = "sleep" => (failed(n) /\ n <= MAX_RETRY_ATTEMPTS
                                /\ ft_waited = RETRY_DELAY * (n - 1))
        /\ ft_pc \in {"attempt", "request"} => (n = attempt /\ ft_waited = RETRY_DELAY * n)
        /\ (ft_pc = "returned" /\ ft_ret # "cancelled") =>
              /\ n >= 1
              /\ ft_waited = RETRY_DELAY * (n - 1)
              /\ ft_ret = (IF ft_log[n] = "frame" THEN "frame" ELSE "absent")
              /\ failed(n) => n = MAX_RETRY_ATTEMPTS + 1

C29_Returns == []C29_State /\ (ft_holds ~> (ft_pc = "returned" /\ ~ft_holds))

\* Every attempt failed: three requests, two waits, absent, permit released.
C29_Witness ==
    /\ ft_pc = "returned" /\ ft_ret = "absent" /\ ~ft_holds
    /\ ft_log = <<"timeout", "error", "timeout">>
    /\ ft_waited = 2 * RETRY_DELAY

\* C25 as stated: when the analysis yields absent, the cache is left exactly
\* as it was.
C25_AsStated ==
    (bc_pc = "returned" /\ bc_ret = NoSignal) => bc_cache = bc_entry

\* C25, amended: with a live value in the cache analyze_btc_data returns that
\* value whatever frames it was given and leaves the cache as it was; when
\* the analysis yields absent the cache is as the get() left it, unchanged if
\* it was empty and emptied if its entry had expired; set() is called only on
\* the path that returns a freshly computed context, with that context.
C25_Amended ==
    bc_pc = "returned" =>
       LET live    == bc_entry # EmptyCache /\ bc_now - bc_entry.timestamp <= TtlTicks
           expired == bc_entry # EmptyCache /\ bc_now - bc_entry.timestamp > TtlTicks
       IN  /\ live => (bc_ret = bc_entry.data /\ bc_cache = bc_entry)
           /\ (bc_ret = NoSignal) =>
                 bc_cache = (IF expired THEN EmptyCache ELSE bc_entry)
           /\ (bc_cache # bc_entry /\ bc_cache # EmptyCache) =>
                 /\ ~live /\ bc_ret # NoSignal /\ bc_ret = fresh_context(bc_dfs)
                 /\ bc_cache = [data |-> bc_ret, timestamp |-> bc_now]
           /\ (~live /\ fresh_context(bc_dfs) # NoSignal) =>
                 (bc_ret = fresh_context(bc_dfs) /\ bc_cache.data = bc_ret)

\* An expired entry and frames that give no indicators: absent is returned and
\* the entry is gone.
C25_Witness ==
    /\ bc_pc = "returned" /\ bc_ret = NoSignal
    /\ bc_entry # EmptyCache /\ bc_now - bc_entry.timestamp > TtlTicks
    /\ bc_dfs.kind = "no_indicators"
    /\ bc_cache = EmptyCache

\* C24 as stated: in every cycle the BTC cache is written at most once, only
\* when analyze_btc_data produced a context and before any altcoin worker
\* is created, and the cached context saves recomputation: in the runs of
\* the main loop a call of analyze_btc_data comes to return its context from
\* the cache.
C24_AsStated ==
    /\ [](ml_writes <= 1 /\ ml_late_writes = 0)
    /\ <>(ml_hits > 0)

\* No call of analyze_btc_data in the main loop has returned from the cache.
C24_NeverFromCache == ml_hits = 0

\* C30: once the stop flag is set it is never reset and no new cycle begins
\* (a run_triad_scan_async entered with the flag down returns at once), the
\* wait between cycles ends at its next one-second check, and, every fetch
\* in flight returning or timing out, the process reaches its final stopped
\* state.
C30_Step ==
    ~ml_running =>
       /\ ~ml_running'
       /\ ml_cycles' = ml_cycles /\ ml_pc' # "btc_fetch"
       /\ (ml_pc = "wait" /\ ml_pc' # ml_pc) => ml_pc' = "while"
       /\ ml_pc' \notin {"sleep", "alt_gather"} \/ ml_pc' = ml_pc

C30_Stops == [][C30_Step]_vars /\ (~ml_running ~> ml_pc = "stopped")

\* The flag came down during the wait between cycles, and the loop ended
\* with iterations of the wait left.
C30_Witness ==
    /\ ml_pc = "stopped" /\ ~ml_running
    /\ ml_left > 0 /\ ml_left < WaitSeconds /\ ml_cycles > 0

\* C26 as stated: in every result of combine_signals whose final label is a
\* LONG one and whose altcoin signal carries a target and a stop,
\* stop <= price <= target, and with a SHORT final label
\* target <= price <= stop (prices in units of 1/20000 of the price unit).
C26_AsStated ==
    (cb_pc = "combined" /\ alt_pc = "returned" /\ alt_signal.has_levels) =>
       LET price == 20000 * alt_signal.price
       IN  /\ combined.final_signal \in {"STRONG_LONG", "LONG", "WEAK_LONG"}
                 => (alt_signal.stop <= price /\ price <= alt_signal.target)
           /\ combined.final_signal \in {"STRONG_SHORT", "SHORT", "WEAK_SHORT"}
                 => (alt_signal.target <= price /\ price <= alt_signal.stop)

\* C27: whenever a close series handed to combine_signals is absent or has
\* fewer than 30 points, or the correlation computation fails, the reported
\* correlation is 0, is_divergent is True and the weights are 0.3 for BTC and
\* 0.7 for the altcoin; is_divergent is False only when a correlation of
\* absolute value 0.5 or more was computed over 30 points of both series.
C27_Fallback ==
    (cb_pc = "combined" /\ alt_pc = "returned") =>
       LET computed == /\ cb_alt.close_len # None /\ cb_alt.close_len >= 30
                       /\ btc_signal.close_len # None /\ btc_signal.close_len >= 30
                       /\ cb_alt.pearsonr.kind = "value"
       IN  /\ ~computed =>
                 /\ combined.correlation = 0 /\ combined.is_divergent
                 /\ combined.btc_weight = 30 /\ combined.alt_weight = 70
           /\ ~combined.is_divergent =>
                 /\ computed /\ Abs(cb_alt.pearsonr.r) >= 50
                 /\ combined.correlation = cb_alt.pearsonr.r

\* The altcoin's close series is absent while pearsonr would have given -0.5.
C27_Witness ==
    /\ cb_pc = "combined" /\ alt_pc = "returned"
    /\ cb_alt.close_len = None /\ btc_signal.close_len = 250
    /\ cb_alt.pearsonr = [kind |-> "value", r |-> -50]
    /\ combined.correlation = 0 /\ combined.is_divergent
    /\ combined.btc_weight = 30 /\ combined.alt_weight = 70

\* C28: two calls of analyze_altcoin_data that differ only in the orderbook
\* argument return the same altcoin signal, and every order-book term of the
\* score comes from the analysis check_liquidity made itself.
C28_SameSignal ==
    alt_pc = "returned" =>
       LET own == check_liquidity(alt_args.exchange)[2]
           rs == {alt_signal.reasons[i] : i \in 1..Len(alt_signal.reasons)}
       IN  /\ alt_signal = alt_signal2
           /\ alt_signal.orderbook_analysis = own
           /\ "Support" \in rs => (own.present /\ own.bid_near)
           /\ "Resistance" \in rs => (own.present /\ own.ask_near)
           /\ "Dense order book" \in rs => (own.present /\ own.density_score > 100)

\* The task passed a book with a bid wall to one call and {} to the other,
\* check_liquidity found an ask wall: both signals carry the resistance.
C28_Witness ==
    /\ alt_pc = "returned"
    /\ alt_books = <<WorkerBook(TRUE, 50, TRUE, FALSE), WorkerBook(FALSE, 0, FALSE, FALSE)>>
    /\ \E i \in 1..Len(alt_signal.reasons) : alt_signal.reasons[i] = "Resistance"
    /\ alt_signal2 = alt_signal

====
